---- MODULE Spec2Model ----
(***************************************************************************)
(* Driving-scenario simulator and CAN frame codec of the vehicle CAN       *)
(* dashboard: notebooks/01_data_generator.py (scenario, physics, encoder,  *)
(* frame multiplexing), notebooks/02_generate_dbc.py (signal dictionary),  *)
(* notebooks/04_vehicle_dlt_udf.py (decoder) and the quality evaluator of  *)
(* the backend router.                                                     *)
(*                                                                         *)
(* Numbers.  Every float of the source is an IEEE 754 double, computed     *)
(* here bit for bit (see "Python floats" below): the phase windows, the    *)
(* event times, the physics, the encoders, the frame times and the rates   *)
(* of the quality evaluator.  The decoded values and the codec inputs are  *)
(* in fixed point: a physical value v is the integer v * Unit, Unit =      *)
(* 12800 = 128 * 100, in which every scale and offset of the dictionary    *)
(* is an integer.  The codec inputs are taken on the dyadic grid k/128     *)
(* (multiples of 100 units), which doubles represent exactly, and on the   *)
(* decimal values listed with them.  Times are integers in ms.             *)
(***************************************************************************)
EXTENDS Integers, Sequences, FiniteSets, TLC

\* ------------------------------------------------------------------------
\* Bounds of the model
\* ------------------------------------------------------------------------
\* the codec inputs of a signal are the multiples of (c * GridMul + 1)/128
\* in its declared range, c a per-signal factor
GridMul == 8
\* durations of a generate_can_data run, in seconds: 1..MaxDuration
MaxDuration == 3
\* seeds of the random source: 0..MaxSeed
MaxSeed == 1
\* values datetime.now() may return, in seconds: 0..MaxNow
MaxNow == 1
\* longest payload offered to the decoder, in bytes
MaxPayloadLen == 9
\* durations below 1 offered to the constructor: -MaxInvalid..0
MaxInvalid == 1

\* ------------------------------------------------------------------------
\* Integer helpers
\* ------------------------------------------------------------------------
Unit == 128 * 100

Min(a, b) == IF a <= b THEN a ELSE b
Max(a, b) == IF a >= b THEN a ELSE b
Abs(a) == IF a >= 0 THEN a ELSE -a
\* F applied to the value of v: v is evaluated first, once
Then(v, F(_)) == CHOOSE out \in {F(x) : x \in {v}} : TRUE

\* ------------------------------------------------------------------------
\* Python floats: IEEE 754 binary64, round to nearest, ties to even.
\* A float is [neg, e, m]: the value (-1)^neg * M * 2^e, where M, the
\* 53-bit significand (2^52 <= M < 2^53), is held in four digits of base
\* 2^14, least significant first; zero is FZero.  Wide numbers (exact sums,
\* products and quotients before rounding) have WideLen digits.  Integers
\* of the checker are 32 bits wide: no intermediate value below exceeds it.
\* Infinities, NaN and subnormals do not occur in the program's ranges.
\* ------------------------------------------------------------------------
DigitBits == 14
Base == 2 ^ DigitBits
WideLen == 8

RECURSIVE CarryFrom(_, _, _)
CarryStep(cols, i, t) == <<t % Base>> \o CarryFrom(cols, i + 1, t \div Base)
\* the digits of sum cols[k] * Base^(k-1), from column i with carry c in
\* (columns may exceed the base or be negative; the total is >= 0)
CarryFrom(cols, i, c) ==
  IF i > Len(cols) THEN <<>> ELSE CarryStep(cols, i, cols[i] + c)

Digit(a, i) == IF i >= 1 /\ i <= Len(a) THEN a[i] ELSE 0
AddW(a, b) == CarryFrom([i \in 1..Len(a) |-> a[i] + Digit(b, i)], 1, 0)
\* a - b for a >= b
SubW(a, b) == CarryFrom([i \in 1..Len(a) |-> a[i] - Digit(b, i)], 1, 0)
IsZeroW(a) == \A i \in 1..Len(a) : a[i] = 0

RECURSIVE CmpFrom(_, _, _)
\* -1, 0, 1 as a < b, a = b, a > b, comparing digits i, i-1, .., 1
CmpFrom(a, b, i) ==
  IF i = 0 THEN 0
  ELSE IF Digit(a, i) < Digit(b, i) THEN -1
  ELSE IF Digit(a, i) > Digit(b, i) THEN 1
  ELSE CmpFrom(a, b, i - 1)
CmpW(a, b) == CmpFrom(a, b, Max(Len(a), Len(b)))

\* a * q for a digit q, one digit longer than a
MulDigit(a, q) == CarryFrom([i \in 1..(Len(a) + 1) |-> Digit(a, i) * q], 1, 0)

\* column k of the product of two significands
MulCol(a, b, k) ==
  (IF k <= 4 THEN a[1] * b[k] ELSE 0)
    + (IF k >= 2 /\ k <= 5 THEN a[2] * b[k - 1] ELSE 0)
    + (IF k >= 3 /\ k <= 6 THEN a[3] * b[k - 2] ELSE 0)
    + (IF k >= 4 /\ k <= 7 THEN a[4] * b[k - 3] ELSE 0)
\* the product of two significands: eight digits
MulW(a, b) == CarryFrom([k \in 1..WideLen |-> MulCol(a, b, k)], 1, 0)

RECURSIVE ShlFrom(_, _, _, _, _)
ShlFrom(a, q, r, i, n) ==
  IF i > n THEN <<>>
  ELSE <<(Digit(a, i - q) % (2 ^ (DigitBits - r))) * (2 ^ r)
           + Digit(a, i - q - 1) \div (2 ^ (DigitBits - r))>>
         \o ShlFrom(a, q, r, i + 1, n)
\* a * 2^s, in n digits
ShlW(a, s, n) == ShlFrom(a, s \div DigitBits, s % DigitBits, 1, n)
RECURSIVE ShrFrom(_, _, _, _, _)
ShrFrom(a, q, r, i, n) ==
  IF i > n THEN <<>>
  ELSE <<Digit(a, i + q) \div (2 ^ r)
           + (Digit(a, i + q + 1) % (2 ^ r)) * (2 ^ (DigitBits - r))>>
         \o ShrFrom(a, q, r, i + 1, n)
\* floor(a / 2^s), in n digits
ShrW(a, s, n) == ShrFrom(a, s \div DigitBits, s % DigitBits, 1, n)
\* bit i of a (bit 0 is the least significant)
BitW(a, i) == (Digit(a, (i \div DigitBits) + 1) \div (2 ^ (i % DigitBits))) % 2
\* one of the s low bits of a is set
LowBitsSet(a, s) ==
  \/ \E i \in 1..(s \div DigitBits) : Digit(a, i) # 0
  \/ Digit(a, (s \div DigitBits) + 1) % (2 ^ (s % DigitBits)) # 0

RECURSIVE BitLenInt(_)
BitLenInt(x) == IF x = 0 THEN 0 ELSE 1 + BitLenInt(x \div 2)
RECURSIVE TopDigit(_, _)
TopDigit(a, i) == IF i = 0 \/ a[i] # 0 THEN i ELSE TopDigit(a, i - 1)
BitLenTop(a, t) == IF t = 0 THEN 0 ELSE (t - 1) * DigitBits + BitLenInt(a[t])
\* number of bits of a (0 for zero)
BitLenW(a) == BitLenTop(a, TopDigit(a, Len(a)))

FZero == [neg |-> FALSE, e |-> 0, m |-> <<0, 0, 0, 0>>]
IsZero(x) == x.m[4] = 0

\* the float of a rounded significand qu = floor(W / 2^s) (+ 1)
RoundCarry(neg, e, s, qu) ==
  IF qu[4] = 2 ^ 11                     \* the significand reached 2^53
  THEN [neg |-> neg, e |-> e + s + 1, m |-> <<0, 0, 0, 2 ^ 10>>]
  ELSE [neg |-> neg, e |-> e + s, m |-> qu]
\* round q = floor(W / 2^s) up when the dropped part is above a half, or
\* is a half and q is odd
RoundUp(neg, e, s, q, half, rest) ==
  RoundCarry(neg, e, s,
             IF half /\ (rest \/ q[1] % 2 = 1) THEN AddW(q, <<1>>) ELSE q)
RoundLen(neg, w, e, sticky, len) ==
  IF len = 0 THEN FZero
  ELSE IF len <= 53
  THEN [neg |-> neg, e |-> e - (53 - len), m |-> ShlW(w, 53 - len, 4)]
  ELSE RoundUp(neg, e, len - 53, ShrW(w, len - 53, 4),
               BitW(w, len - 54) = 1, LowBitsSet(w, len - 54) \/ sticky)
\* the float nearest to (-1)^neg * (W + f) * 2^e, where W is the wide w and
\* 0 < f < 1 iff sticky (ties to the even significand)
RoundPack(neg, w, e, sticky) == RoundLen(neg, w, e, sticky, BitLenW(w))

IntDigits(a) == <<a % Base, (a \div Base) % Base, a \div (Base * Base)>>
\* the float of an integer (exact below 2^53)
FromInt(n) == RoundPack(n < 0, IntDigits(Abs(n)), 0, FALSE)

FNeg(x) == IF IsZero(x) THEN x ELSE [x EXCEPT !.neg = ~x.neg]

\* -1, 0, 1 as |x| < |y|, |x| = |y|, |x| > |y| (x, y not zero)
CmpMag(x, y) ==
  IF x.e < y.e THEN -1 ELSE IF x.e > y.e THEN 1 ELSE CmpW(x.m, y.m)

\* -1, 0, 1 as x < y, x = y, x > y
FCmp(x, y) ==
  IF IsZero(x) THEN (IF IsZero(y) THEN 0 ELSE IF y.neg THEN 1 ELSE -1)
  ELSE IF IsZero(y) THEN (IF x.neg THEN -1 ELSE 1)
  ELSE IF x.neg # y.neg THEN (IF x.neg THEN -1 ELSE 1)
  ELSE IF x.neg THEN CmpMag(y, x) ELSE CmpMag(x, y)
FLt(x, y) == FCmp(x, y) < 0
FLe(x, y) == FCmp(x, y) <= 0
FGt(x, y) == FCmp(x, y) > 0
FGe(x, y) == FCmp(x, y) >= 0
\* min(a, b) and max(a, b) of Python: the first argument wins a tie
FMin(a, b) == IF FLt(b, a) THEN b ELSE a
FMax(a, b) == IF FGt(b, a) THEN b ELSE a

\* x + y for |x| >= |y|, both not zero.  An addend more than 55 binary
\* places below the other is under a quarter of its last place.
AddOrdered(x, y) ==
  IF x.e - y.e > 55 THEN x
  ELSE RoundPack(x.neg,
                 IF x.neg = y.neg
                 THEN AddW(ShlW(x.m, x.e - y.e, WideLen), y.m)
                 ELSE SubW(ShlW(x.m, x.e - y.e, WideLen), y.m),
                 y.e, FALSE)
AddSwap(x, y, c) == AddOrdered(IF c THEN x ELSE y, IF c THEN y ELSE x)

FAdd(x, y) ==
  IF IsZero(x) THEN y
  ELSE IF IsZero(y) THEN x
  ELSE AddSwap(x, y, CmpMag(x, y) >= 0)

FSub(x, y) == FAdd(x, FNeg(y))

FMul(x, y) ==
  IF IsZero(x) \/ IsZero(y) THEN FZero
  ELSE RoundPack(x.neg # y.neg, MulW(x.m, y.m), x.e + y.e, FALSE)

DivFits(n, d, q) == CmpW(MulDigit(d, q), n) <= 0
DivTake(n, d, q) == [q |-> q, r |-> SubSeq(SubW(n, MulDigit(d, q)), 1, 4)]
DivEst(n, d, est) ==
  DivTake(n, d, IF DivFits(n, d, est) THEN est
                ELSE IF DivFits(n, d, est - 1) THEN est - 1 ELSE est - 2)
DivDigit(n, d) == DivEst(n, d, Min(Base - 1, (n[5] * Base + n[4]) \div d[4]))
\* one digit of the long division of r * Base by d (d has its top bit set,
\* r < d): [q |-> digit, r |-> remainder]
DivStep(r, d) == DivDigit(<<0>> \o r, d)

RECURSIVE DivLoop(_, _, _, _)
\* k more digits of the quotient qs (least significant first)
DivLoop(r, d, k, qs) ==
  IF k = 0 THEN [q |-> qs, r |-> r]
  ELSE Then(DivStep(r, d), LAMBDA s : DivLoop(s.r, d, k - 1, <<s.q>> \o qs))
DivPack(x, y, s) ==
  RoundPack(x.neg # y.neg, s.q \o <<0, 0, 0>>,
            x.e - y.e - 4 * DigitBits, ~IsZeroW(s.r))
DivStart(x, y, n, d, ge) ==
  DivPack(x, y, DivLoop(IF ge THEN SubW(n, d) ELSE n, d, 4,
                        <<IF ge THEN 1 ELSE 0>>))
DivScaled(x, y, n, d) == DivStart(x, y, n, d, CmpW(n, d) >= 0)
\* x / y (y not zero): the quotient of the significands to 56 binary
\* places and whether a remainder is left
FDiv(x, y) ==
  IF IsZero(x) THEN FZero
  ELSE DivScaled(x, y, ShlW(x.m, 3, 4), ShlW(y.m, 3, 4))

\* the limit of the integers int() is asked for here
IntLimit == 2 ^ 30
TruncDigits(q) == q[1] + q[2] * Base + q[3] * Base * Base
\* int(x): truncation toward zero (saturating at IntLimit)
FTrunc(x) ==
  IF IsZero(x) \/ x.e <= -53 THEN 0
  ELSE IF x.e > -23 THEN (IF x.neg THEN -IntLimit ELSE IntLimit)
  ELSE IF x.neg THEN -TruncDigits(ShrW(x.m, -x.e, 3))
  ELSE TruncDigits(ShrW(x.m, -x.e, 3))

\* the float a decimal literal p/q denotes
Dec(p, q) == FDiv(FromInt(p), FromInt(q))

\* the floats of the integers the program uses
SmallInts == [n \in -1080..6500 |-> FromInt(n)]
Fl(n) == SmallInts[n]

\* the float of a fixed point value u / Unit (exact on the grid k/128)
FromUnits(u) == FDiv(FromInt(u), FromInt(Unit))
\* ------------------------------------------------------------------------
\* Signal dictionary (02_generate_dbc.py, DBC_CONTENT) and CAN_MESSAGES
\* ------------------------------------------------------------------------
CAN_MESSAGES ==
  [id \in {256, 257, 258, 259} |->
     CASE id = 256 -> [name |-> "VehicleSpeed", period_ms |-> 20]
       [] id = 257 -> [name |-> "EngineData",   period_ms |-> 10]
       [] id = 258 -> [name |-> "BrakeData",    period_ms |-> 20]
       [] id = 259 -> [name |-> "SteeringData", period_ms |-> 50]]

\* One SG_ line: start|length@order (scale, offset) [min|max].
\* "@1" is the DBC flag for little-endian (Intel) byte order.
\* scale, offset, min, max are in units (value * Unit).
SG(name, start, length, order, scale, offset, lo, hi) ==
  [name |-> name, start |-> start, length |-> length, byte_order |-> order,
   scale |-> scale, offset |-> offset, minimum |-> lo, maximum |-> hi]

DBC_CONTENT ==
  [id \in {256, 257, 258, 259} |->
     CASE id = 256 ->
            [name |-> "VehicleSpeed", length |-> 8, signals |->
               <<SG("speed_kmh", 0, 16, "little_endian", 128, 0, 0, 8388480)>>]
       [] id = 257 ->
            [name |-> "EngineData", length |-> 8, signals |->
               <<SG("rpm", 0, 16, "little_endian", 3200, 0, 0, 209712000),
                 SG("throttle", 16, 8, "little_endian", 5120, 0, 0, 1305600)>>]
       [] id = 258 ->
            [name |-> "BrakeData", length |-> 8, signals |->
               <<SG("pressure", 0, 8, "little_endian", 5120, 0, 0, 1305600),
                 SG("active", 8, 1, "little_endian", 12800, 0, 0, 12800)>>]
       [] id = 259 ->
            [name |-> "SteeringData", length |-> 8, signals |->
               <<SG("angle", 0, 16, "little_endian", 1280, -13824000,
                    -13824000, 13824000)>>]]

\* ------------------------------------------------------------------------
\* Frame encoder (01_data_generator.py)
\* ------------------------------------------------------------------------
Zeros(n) == [i \in 1..n |-> 0]

\* struct.pack raises struct.error when a value does not fit its field
FitsH(v) == v >= 0 /\ v <= 65535
FitsB(v) == v >= 0 /\ v <= 255

\* a pack that writes the low byte first
PackH_low_first(v) == <<v % 256, v \div 256>>

\* struct.pack(">H", v): two bytes, high byte first
PackH(v) == <<v \div 256, v % 256>>
PackB(v) == <<v>>

\* the scales of the encoders, as the floats their literals denote
SpeedScale == Dec(1, 100)
RpmScale == Dec(25, 100)
PercentScale == Dec(4, 10)
AngleScale == Dec(1, 10)

\* the arguments are floats; int(x / scale) is the truncated float quotient
speed_raw_of(speed_kmh) == FTrunc(FDiv(speed_kmh, SpeedScale))
rpm_raw_of(rpm) == FTrunc(FDiv(rpm, RpmScale))
throttle_raw_of(throttle_pct) == FTrunc(FDiv(throttle_pct, PercentScale))
pressure_raw_of(pressure) == FTrunc(FDiv(pressure, PercentScale))
active_raw_of(active) == IF active THEN 1 ELSE 0
angle_raw_of(angle) == FTrunc(FDiv(FAdd(angle, Fl(1080)), AngleScale))

\* The result of an encoder: the payload, or raised = TRUE (struct.error)
Raised == [raised |-> TRUE, data |-> <<>>]
Packed(bytes) == [raised |-> FALSE, data |-> bytes]

\* struct.pack(">H", raw) + b'\x00' * 6
PackH6(raw) == IF FitsH(raw) THEN Packed(PackH(raw) \o Zeros(6)) ELSE Raised
\* struct.pack(">HB", raw, b) + b'\x00' * 5
PackHB5(raw, b) ==
  IF FitsH(raw) /\ FitsB(b)
  THEN Packed(PackH(raw) \o PackB(b) \o Zeros(5))
  ELSE Raised
\* struct.pack(">BB", raw, flag) + b'\x00' * 6
PackBB6(raw, flag) ==
  IF FitsB(raw) THEN Packed(PackB(raw) \o PackB(flag) \o Zeros(6)) ELSE Raised

encode_vehicle_speed(speed_kmh) == PackH6(speed_raw_of(speed_kmh))

encode_engine_data(rpm, throttle_pct) ==
  PackHB5(rpm_raw_of(rpm), throttle_raw_of(throttle_pct))

encode_brake_data(pressure, active) ==
  PackBB6(pressure_raw_of(pressure), active_raw_of(active))

encode_steering_data(angle) == PackH6(angle_raw_of(angle))

\* ------------------------------------------------------------------------
\* Frame decoder (04_vehicle_dlt_udf.py), cantools semantics of the DBC
\* ------------------------------------------------------------------------
Pow2(n) == 2 ^ n

\* bit i of the payload in DBC little-endian numbering: bit (i % 8) of
\* byte (i \div 8)
BitLE(bytes, i) == (bytes[(i \div 8) + 1] \div Pow2(i % 8)) % 2

RECURSIVE SumBitsLE(_, _, _)
SumBitsLE(bytes, start, n) ==
  IF n = 0 THEN 0
  ELSE SumBitsLE(bytes, start, n - 1) + BitLE(bytes, start + n - 1) * Pow2(n - 1)

\* raw unsigned integer of a signal as cantools extracts it: "@1" signals
\* are read least significant byte first, starting at bit `start`
ExtractRaw(sg, bytes) == SumBitsLE(bytes, sg.start, sg.length)

\* a value that leaves the offset out
Physical_no_offset(sg, bytes) == ExtractRaw(sg, bytes) * sg.scale

\* physical = raw * scale + offset
Physical(sg, bytes) == ExtractRaw(sg, bytes) * sg.scale + sg.offset

\* Message.decode(data): DecodeError when the payload is shorter than the
\* message length; excess bytes are ignored.  Otherwise name -> physical.
DecodeRaises(msg, bytes) == Len(bytes) < msg.length

Signal(msg, name) ==
  LET i == CHOOSE j \in 1..Len(msg.signals) : msg.signals[j].name = name
  IN  msg.signals[i]

\* an optional value of the result struct: unset is None
NoneNum == [set |-> FALSE, v |-> 0]
NoneBool == [set |-> FALSE, v |-> FALSE]
NoneStr == [set |-> FALSE, v |-> ""]
Some(x) == [set |-> TRUE, v |-> x]

EmptyResult ==
  [message_name |-> NoneStr, speed_kmh |-> NoneNum, rpm |-> NoneNum,
   throttle_pct |-> NoneNum, brake_pressure |-> NoneNum,
   brake_active |-> NoneBool, steering_angle |-> NoneNum]

\* data is [none |-> BOOLEAN, bytes |-> sequence of bytes]; dbc_readable
\* tells whether open(local_path) and load_string succeed inside the UDF.
\* a check that forgets the empty payload
EmptyPayload_none_only(data) == data.none

\* line 120: data is None or len(data) == 0
EmptyPayload(data) == data.none \/ Len(data.bytes) = 0

decode_can_frame(arb_id, data, dbc_readable) ==
  LET result == EmptyResult
  IN  IF EmptyPayload(data) THEN result
      ELSE IF ~dbc_readable THEN result                \* except: return result
      ELSE IF arb_id \notin DOMAIN DBC_CONTENT THEN result  \* KeyError
      ELSE
        LET message == DBC_CONTENT[arb_id]
            named == [result EXCEPT !.message_name = Some(message.name)]
            bytes == data.bytes
        IN  IF DecodeRaises(message, bytes) THEN named  \* except: return result
            ELSE CASE message.name = "VehicleSpeed" ->
                        [named EXCEPT !.speed_kmh =
                           Some(Physical(Signal(message, "speed_kmh"), bytes))]
                   [] message.name = "EngineData" ->
                        [named EXCEPT
                           !.rpm = Some(Physical(Signal(message, "rpm"), bytes)),
                           !.throttle_pct =
                             Some(Physical(Signal(message, "throttle"), bytes))]
                   [] message.name = "BrakeData" ->
                        [named EXCEPT
                           !.brake_pressure =
                             Some(Physical(Signal(message, "pressure"), bytes)),
                           !.brake_active =
                             Some(ExtractRaw(Signal(message, "active"), bytes) # 0)]
                   [] message.name = "SteeringData" ->
                        [named EXCEPT !.steering_angle =
                           Some(Physical(Signal(message, "angle"), bytes))]

\* ------------------------------------------------------------------------
\* The random source: the generator of the random module (the Mersenne
\* Twister).  MTOutputs[s] holds its first 32-bit outputs after
\* random.seed(s), each without its five low bits, which no draw of the
\* program reads.
\* ------------------------------------------------------------------------
MTOutputs ==
  (0 :> <<  \* random.seed(0)
     113336382, 51706749, 101730917, 119486516, 56448162, 5433721, 34751217, 129582503, 68622131, 65220111,
     54349339, 123243325, 105199665, 111380971, 40709944, 129895916, 63967760, 48056573, 78300211, 119676667,
     121884848, 29318886, 67737923, 18693000, 37827635, 18756361, 101442323, 12727969, 82996081, 107293997,
     33622391, 132507686, 122104075, 71479480, 131907233, 94646617, 108745516, 80785928, 121086664, 19724825,
     41627302, 13255791, 97956359, 9897541, 120640032, 114148664, 91802769, 44318320, 63369922, 75136920,
     13515887, 47485068, 58273557, 42439202, 81991861, 85956173, 122542269, 27444538, 129735710, 74158472,
     64023168, 59417296, 116139932, 69974900, 34962686, 8359024, 108049005, 123274271, 73645173, 122942698,
     1884645, 12518737, 96597127, 112755134, 53529189, 95328600, 110708818, 105367326, 89678004, 83921759,
     153386, 82127436, 66246899, 111140771, 116447673, 44712641, 32737163, 98016331, 43648190, 94441303,
     116832671, 8453606, 25644590, 123080202, 76170002, 29756593, 32026487, 107823147, 129861054, 19125273,
     107800923, 72878878, 60125458, 12242798, 10797254, 133307940, 42957001, 117452227, 68174638, 133945484,
     125202836, 65670960, 14637496, 40459503, 73989837, 39069528, 94833067, 16751810, 73476275, 44661017,
     109315891, 123782263, 72515638, 27273290, 129364219, 107297290, 80958204, 73447981, 78868627, 38608704,
     59725416, 12298651, 80032267, 107097025, 51660557, 42553307, 77262571, 32495072, 38967366, 24678442,
     25419673, 110255463, 25062413, 4425482, 82245023, 131707821, 88135331, 34904153, 63958907, 9272465,
     12056021, 91096787, 101683877, 17478429, 117678127, 20072305, 123934102, 5186383, 113073097, 10770746,
     120550755, 93861517, 123894027, 111314930, 72558093, 91737600, 52518866, 112456367, 94661535, 70407122,
     36994985, 70033481, 108934961, 31608507, 114016076, 28883828, 120130096, 91197504, 79161774, 110764964,
     127475283, 56294034, 77805347, 36938170, 60473556, 66123086, 88616634, 86059980, 133715463, 93982678,
     123069766, 131863600, 106478290, 47965060, 11055915, 43530143, 82246356, 15481980, 65289435, 78795832,
     84576944, 44999241, 113424392, 25552216, 32619689, 2175538, 98178821, 36378099, 15721498, 94668208,
     29589712, 49937073, 106647121, 22881676, 44632246, 57194352, 109510002, 8347330, 13503312, 105108387,
     19643903, 114799458, 93639768, 29363290, 6071213, 109672030, 77022995, 85121743, 122140281, 125697548,
     71698837, 80821954, 91347127, 9931695, 3583183, 16702553, 85228245, 25302809, 81381364, 111412274,
     77303096, 16065254, 52507238, 12285197, 49679341, 111916704, 131602717, 15575449, 4884456, 81269394,
     2904003, 26117555, 128987434, 130284063, 24826513, 96383539, 16628927, 64321652, 28263100, 97597122,
     107474388, 8198675, 125757871, 91180437, 3057825, 73046040, 57125592, 83295518, 13623128, 112192955,
     34885857, 9395818, 29639203, 9659876, 86828900, 40407795, 47015660, 58528143, 24201859, 8192977,
     67596947, 62697292, 5285320, 80058851, 13545419, 93861560, 132638676, 52516202, 26757081, 34914494,
     48124477, 121386329, 98193462, 63111344, 112518286, 121105223, 123276575, 76473039, 22739785, 93643315,
     90280288, 27301856, 129727997, 102991751, 7791465, 105850581, 90758267, 21234402, 113470968, 21737107,
     45944411, 71064827, 33646685, 15732041, 80099984, 123670683, 59366384, 89336101, 23463874, 1772178,
     63300491, 91439944, 55016570, 120809115, 76385018, 117414298, 68263153, 123146258, 41801574, 87098378,
     47936087, 52162678, 112428979, 88263752, 33679612, 20590713, 75242487, 92720661, 1669174, 61465572,
     99532428, 10613104, 45085956, 99189064, 6133279, 73057326, 37699500, 18097597, 32229757, 102296276,
     127926854, 64669736, 47274914, 81891021, 38638319, 90382682, 48211168, 79225729, 127091549, 119714635,
     85060196, 114591657, 83359523, 17762948, 96048803, 41647436, 52078791, 100460074, 55622240, 111253446,
     87353308, 10834472, 204577, 79802764, 25811349, 93762181, 44882635, 21485544, 32133866, 29943682,
     85550299, 60147705, 50821283, 95341559, 117497338, 90432576, 76255992, 117378456, 55620685, 4233962,
     53991372, 116996008, 94197977, 76164848, 56133417, 103641012, 88878427, 95161179, 6278663, 22236518,
     59774159, 8574675, 34792848, 94155906, 21164333, 59910057, 70809666, 118775375, 65399681, 121875046,
     75350493, 81064472, 101399449, 9282, 118631715, 5222436, 66381762, 43747450, 41883748, 112439135,
     62665215, 6691692, 108588296, 110423598, 117442703, 130751807, 109040486, 55718800, 25233106, 73626753,
     134139929, 129256741, 84971734, 131341677, 11202757, 112400420, 97382257, 17518332, 132448937, 1976931,
     53930940, 127446112, 91068742, 56033898, 42436577, 455375, 28658795, 1918147, 96277616, 101301343,
     316426, 131566208, 110425140, 90699226, 70913396, 82149566, 13124392, 25563099, 15959010, 81652648,
     87142930, 26644416, 117259831, 40589594, 37578647, 92414274, 131334085, 24457308, 13446024, 63834686,
     114613632, 123852056, 53243659, 84240294, 10917997, 2932053, 36871467, 122659046, 60797702, 107350634,
     106346280, 15539647, 115609769, 34425340, 17907403, 87720276, 69909387, 109692554, 87346647, 86562471,
     46580667, 15449714, 117019583, 20728604, 37367532, 114251465, 2493004, 5677088, 5457732, 27613383,
     91401839, 34852234, 74941238, 42240094, 127037422, 49243651, 125955123, 76164237, 122118157, 114009610,
     5637752, 113596505, 100547173, 129010470, 94130223, 81550221, 87961180, 66368743, 95611025, 86455470,
     121159705, 61560888, 85918297, 58443850, 49989293, 116958768, 72199579, 23929453, 27896363, 50409349,
     78802651, 39062122, 1194146, 18583377, 20269987, 36423125, 44749316, 45299968, 105981426, 49284947,
     96435360, 12577209, 45399947, 104611567, 83287215, 4786938, 5530166, 36188071, 21992990, 20054280,
     131790275, 78309491, 38860173, 48440065, 52988082, 132782004, 73616316, 17400112, 39380421, 15421135,
     64164753, 98048967, 32172805, 125326351, 6476859, 41322922, 24103738, 115029502, 70202613, 97799190,
     9511055, 40623768, 54112446, 112146929, 44093303, 40161367, 55662992, 14582946, 13341287, 75273326,
     121957952, 64581852, 63619827, 45242184, 112856752, 107088883, 131027299, 109028907, 46124136, 16686592,
     64301904, 15570338, 93898090, 66804796, 57248602, 5076702, 40520750, 44973932, 98616608, 92222408,
     120044306, 20892881, 123438547, 22354791, 84119893, 75764214, 50408332, 108195392, 130803298, 133076843,
     85748823, 11666443, 8836180, 108417399, 11364157, 26580516, 100645790, 29669999, 8208240, 51648579,
     1053744, 13163606, 52856008, 74688757, 69659501, 38899090, 60202594, 123500802, 65581305, 105802327,
     78502432, 95885999, 91174447, 29159277, 56779209, 11229090, 49436611, 29546403, 132668728, 134097822,
     35019624, 78547970, 104300617, 22358138, 57877506, 25762423, 48119791, 15436703, 8570868, 110324380,
     115907603, 114468755, 94221402, 3706952, 121200045, 70573790, 60614308, 100990572, 90854794, 27070094,
     15959868, 66717951, 53412428, 34424119, 27814204, 86033197, 5650757, 133820509, 127233218, 107029674,
     28976851, 83673356, 19643367, 14043159, 26571089, 61526486, 50738591, 48538780, 73335393, 110996261,
     20311755, 14058807, 132699710, 80026041, 131934578, 65485018, 19918181, 75685929, 54479899, 85679704,
     91258590, 56806160, 117797072, 69958124, 66492257, 91176567, 123083920, 119156067, 43279890, 111874972,
     66899603, 133973860, 66927212, 85236953, 89935024, 117400113, 27110814, 72854600, 81842025, 124998769,
     29363228, 1302537, 45663597, 94703187, 129193483, 100265861, 120662816, 42716058, 109805990, 43194605,
     4760469, 70478720, 19913465, 117371156, 34478106, 80877819, 105249055, 20925263, 113056065, 50869204,
     78241980, 39511329, 96385998, 94807806, 108321139, 63140231, 8906571, 107366911, 11360609, 69327187,
     116621154, 122878245, 5290303, 8905975, 30211156, 17514628, 5453538, 40325487, 2051536, 101857662,
     113273680, 60208609, 44371624, 115682714, 21567454, 107460813, 19974213, 116594337, 88058058, 61838817,
     130003059, 49837977, 67779911, 51302385, 120942316, 71109580, 67434825, 4512133, 77023860, 12166419,
     91076305, 106588358, 108060033, 69524562, 101716419, 80549733, 132947030, 10248611, 100255997, 57225966,
     121571830, 101283149, 27662922, 38878062, 71862359, 120948791, 80344646, 56081622, 110823123, 130533251,
     64721608, 113480012, 106171619, 130491012, 52152833, 81527862, 78703726, 31349381, 114261780, 116068369,
     107113729, 2749018, 88178973, 118816921, 32305, 99421165, 24423455, 40593084, 68029300, 76539892,
     34152962, 44652334, 8807480, 66237793, 115411599, 35166055, 126560206, 110732355, 40641782, 103680531,
     54770653, 51561045, 108721397, 51496581, 8356229, 21984249, 86031531, 125563951, 17088710, 32071554,
     38532344, 97905210, 111392753, 44832029, 7452713, 126414591, 4822957, 64603074, 56085031, 18911932,
     66012433, 119448608, 115873544, 80794603, 96259444, 10954802, 90401519, 93777444, 20317043, 108755080,
     132433427, 47348234, 55182303, 4721751, 82110495, 62582902, 51899714, 61590144, 6312651, 13620483,
     63201679, 104441304, 20316236, 2714966, 4357440, 80302501, 82866082, 17810954, 84552644, 43474646,
     14132163, 93963105, 73704828, 87106266, 46528988, 26168916, 51460965, 105148445, 104209314, 104349047,
     65809593, 14897754, 118282945, 8074649, 81888885, 94062122, 62704967, 82454089, 84867565, 125348019,
     45347523, 87304898, 16686456, 130122130, 91607574, 95780037, 83488452, 39780307, 105839602, 113968508,
     17060297, 128643541, 122377485, 52028923, 107285761, 39433642, 123062544, 100097447, 117109627, 128519764,
     91403137, 131989455, 108750028, 16314487, 69659981, 115485252, 105426568, 133659534, 25384259, 5125024,
     104973578, 52616891, 59670464, 49872843, 101551310, 25565465, 61132180, 47855842, 105972778, 84827404,
     10111907, 128378926, 5991600, 121054662, 125398225, 5366115, 65251975, 34277372, 120939756, 3577707,
     126806661, 69801698, 89457612, 76404348, 76745270, 117558259, 28988262, 30823804, 12546165, 104198945,
     109977229, 118740551, 119288967, 84211927, 104608721, 67432712, 93751409, 70291372, 56386359, 68062712,
     40978227, 126900922, 15226316, 19554237, 57172758, 119701021, 75968975, 56647466, 123866935, 11278591,
     125594879, 14061269, 55786417, 8445359, 13315873, 55722026, 103860192, 20959033, 98553304, 128118048,
     4120597, 106212239, 59957555, 57859425, 92129478, 55971411, 4044548, 66655848, 123383988, 115971857,
     129150000, 43553535, 96978049, 33901509, 10541264, 47312155, 9439461, 16291079, 48218163, 92848489,
     3942982, 46364857, 46691358, 23878362, 1337377, 111436959, 130771488, 30936318, 109925218, 49097177,
     9464713, 80072824, 119914828, 19232211, 27914340, 433805, 27486555, 88451964, 90430421, 98260996,
     125931429, 120917280, 16534029, 100391749, 964296, 39361087, 49543809, 92538624, 3308468, 125196690,
     81181356, 31254356, 115316598, 19043809, 25097601, 60941300, 15084869, 63980773, 46231243, 94956422,
     128737822, 34657546, 17469470, 3749538, 129724019, 27933410, 48619012, 44964705, 63534699, 128970768,
     39276400, 39774972, 125779035, 117898235, 128600433, 74249853, 85351161, 43887068, 24702175, 79593715,
     133271733, 10846002, 13768113, 71568634, 77960284, 41307183, 20992063, 50544910, 120483941, 19720188,
     126926805, 16808890, 107963438, 29906048, 42398228, 68227226, 32593257, 31763590, 101315381, 24688602,
     39065347, 49990993, 56342639, 89012595, 6208331, 115558055, 17748121, 80692801, 2758123, 52855098,
     10458395, 94243598, 9826234, 17719461, 56402544, 40182997, 73924061, 55935147, 99439071, 124338820,
     19096964, 79332947, 56665214, 40000655, 85492134, 47588790, 11348873, 33293848, 59701542, 84930159,
     49560706, 85502666, 127363487, 71029001, 7765450, 50523814, 54844883, 1131134, 55999055, 129111623,
     97734732, 120965382, 43039733, 59229932, 27379111, 49874848, 39367623, 127821036, 63201456, 12221394,
     127542856, 24891778, 106906705, 14578094, 37174317, 15053691, 74917864, 81274989, 92368681, 20653267,
     106791295, 94301119, 59883169, 124590050, 53522930, 24881374, 103030996, 56600194, 57944007, 23452830,
     33280314, 128786244, 60860630, 45686090, 125776056, 70242666, 19135084, 47696611, 62067022, 84760766,
     85537431, 11609752, 64865815, 101339092, 27332085, 39557766, 247384, 111424036, 93817079, 60275621,
     83045275, 62010046, 1043764, 29358005, 40072061, 15362188, 103164343, 131372649, 84412264, 40420872,
     73176594, 81760142, 20967642, 56936377, 94797181, 100844825, 63274924, 12422259, 91023610, 66797424,
     102017530, 128972242, 31187196, 72979657, 102273239, 54399130, 37592826, 84834408, 132072276, 2901704,
     16217744, 36249309, 118610624, 89723030, 5442143, 33985, 34437023, 53476182, 70612202, 119529182,
     78063202, 95289851, 53181759, 59671128, 13694466, 100200372, 33904483, 47489189, 38036834, 116943640,
     101364295, 90267782, 121973625, 26310820, 79914566, 11443301, 4758148, 9456399, 106332179, 35230380,
     41017465, 71623767, 45619318, 15862498, 71160284, 115353861, 33426528, 119547584, 123477368, 102273983,
     21951948, 9139283, 55677593, 115553555, 38881795, 37949779, 69770952, 18041617, 77038533, 70203922,
     84173264, 28223081, 71320053, 14133985, 55137246, 128265825, 85173766, 72957153, 54145159, 99512655,
     104495246, 121338963, 105787383, 37395018, 39225690, 59373173, 49902731, 76266934, 84397571, 18496914,
     21081574, 16548806, 93554042, 16175632, 51194366, 53850372, 79331062, 62806225, 18727815, 75110005,
     89692122, 40125902, 47520841, 84840565, 63440099, 99635922, 55714772, 29260801, 63983637, 65613431,
     93240469, 67319204, 42713473, 66131725, 87517270, 128637298, 8082874, 59590222, 40290169, 19167825,
     100020351, 66507989, 7033797, 119096118, 83368294, 28952635, 3428833, 47701163, 63287533, 52474574,
     119258496, 133262568, 1356953, 113578374, 70709659, 131386620, 8919684, 92193569, 116381504, 10921686,
     92113159, 127414132, 99583360, 124100267, 89792677, 53031499, 862141, 48489955, 5526799, 15589671,
     83332674, 502023, 134175466, 36282774, 117191838, 85949441, 93910239, 39262231, 97589703, 120893381,
     30425417, 18881721, 100879914, 76886670, 38644519, 25663012, 14154637, 58253032, 61860265, 96146298,
     44318126, 51557076, 22582857, 44385201, 56600943, 86973752, 120420276, 92270890, 58420987, 19866812,
     60034501, 125256286, 95137251, 19797211, 70351815, 42422425, 17344022, 28033531, 122190799, 25075151,
     59609359, 46864429, 105943117, 132001012, 52193936, 57349920, 108293039, 66029555, 52282692, 97949835,
     29549310, 106781402, 26332802, 58958094, 126169314, 27416482, 78722758, 95294186, 6683138, 121577385,
     52123132, 4466664, 31410875, 84983417, 11362478, 116904899, 25065948, 48802930, 7649132, 99745623,
     85640792, 90931518, 23269846, 31281343, 81977487, 39933421, 82209264, 11627235, 94613258, 116614203,
     68735401, 100863564, 38174741, 103539660, 117770345, 118507770, 47388398, 55221512, 61511223, 7239706,
     84809421, 93523590, 69273030, 89339299, 128375008, 87041837, 128140037, 73441473, 124790254, 98571731,
     125369605, 57794758, 77975149, 61015696, 65793807, 34192263, 94504959, 63840993, 28913128, 45257447,
     35684741, 5668701, 5879710, 7053586, 21858369, 46949661, 520033, 38897598, 87862626, 956980,
     18845107, 8548347, 105586314, 57410904, 91335700, 29818683, 130281899, 81689998, 53219273, 74862420,
     123667129, 29658487, 60895143, 25883652, 45567420, 81647169, 13735690, 81383524, 118491730, 11491793,
     106674929, 42819503, 43342793, 71927435, 61168975, 119920235, 43640017, 34292610, 3869378, 70060353,
     5952895, 25519054, 49486630, 10752980, 28130871, 116762422, 70399158, 46405405, 25204080, 112379277,
     27061191, 33725836, 90283954, 97848213, 98730917, 40442666, 41907082, 69377216, 115426494, 51629770,
     34177091, 64704308, 46162895, 117034597, 95627499, 32207155, 5973078, 41045754, 125383981, 74084666,
     9709006, 1235938, 61865119, 66478112, 97254813, 58814020, 6371118, 123097536, 108582502, 55313835,
     131384840, 66247451, 61808830, 59070377, 15854286, 11491150, 10935657, 32365853, 13251374, 110899418,
     102735802, 20642106, 55567863, 118682408, 123377520, 28650992, 59141669, 82242811, 10353999, 109791263,
     57302324, 75029215, 101311284, 118998018, 111311919, 52945005, 5281693, 128703572, 24211454, 33517950,
     65768492, 29534678, 17191341, 112804498, 116916075, 37446211, 125421217, 47258538, 42895582, 133502233,
     58363731, 14399599, 74766530, 120745708, 38319938, 81883819, 72621950, 105902849, 27002599, 95437924,
     39814514, 104349499, 59295195, 68992672, 81157420, 62018984, 71962851, 85141860, 35029213, 36580534,
     31110042, 2222434, 15935702, 82526676, 105158735, 95550494, 13274236, 23162782, 98366160, 55654688,
     33389840, 29268149, 38192591, 118083210, 98795445, 133835167, 88532804, 864260, 99579025, 71876829,
     69160121, 57481375, 115305889, 6680064, 16346899, 51632834, 86596870, 36572293, 15870482, 130345470,
     98956498, 75788315, 48171368, 30811383, 90581142, 96173613, 94420012, 73368443, 88665366, 37871826,
     29737008, 99303613, 111642290, 121006508, 32230520, 8695588, 69545358, 41274427, 90549420, 43930720,
     31353687, 50089642, 84357415, 64460704, 38497811, 78122824, 23002553, 18426476, 108682648, 2080208,
     74238881, 67759780, 44007940, 49256195, 78575211, 85203497, 3393882, 108984216, 17424528, 117687548,
     53093963, 20836380, 130963831, 23724981, 68514729, 133040457, 10261778, 18197343, 102682013, 27716529,
     104883620, 122825470, 103992187, 66670963, 76436732, 102979078, 93375103, 130098163, 28649839, 31583560,
     98322618, 17734001, 109545018, 31365283, 102000982, 51621027, 47440920, 81671364, 79326442, 17789313,
     84421522, 66902967, 120904651, 123193928, 14497379, 82680371, 111928696, 3491601, 70656984, 80010625,
     48132372, 65659196, 61149986, 41432912, 1695907, 128665166, 29537777, 74560961, 87612423, 21882487,
     88697688, 117987925, 66397367, 108613900, 127953233, 98968331, 64547330, 73286750, 42136804, 94519355,
     113787218, 10572644, 34783638, 18447458, 81108577, 53935960, 94411280, 25644528, 110286210, 42469260,
     105410409, 39155088, 51551999, 126671390, 7943046, 28006329, 5138910, 42299698, 97503862, 100270320,
     129076032, 33501948, 46058876, 115824896, 59216203, 89715516, 97414960, 88552763, 88292615, 30322090,
     34910915, 46193944, 90138592, 21787859, 40923310, 2278550, 47829548, 76986363, 72412250, 7809186,
     98289497, 84615930, 20295896, 47435171, 2951073, 65915278, 84265910, 8230640, 3297015, 32409155,
     6034864, 1669834, 30303084, 126907486, 87761868, 43844621, 8931531, 110186963, 8375960, 46295520,
     130472146, 89117301, 56727511, 18233576, 119779783, 123746535, 29061397, 60259310, 58413324, 19066294,
     48054662, 41869466, 23747885, 87117465, 44132558, 97719127, 132445492, 105398943, 100302117, 54845482,
     51360867, 1292951, 54933226, 119577776, 35398704, 71632750, 71314801, 107991654, 98735514, 131617620,
     92160148, 94614732, 62095809, 101882801, 5628963, 75796571, 123682684, 16454484, 54886165, 128037452,
     52385027, 22993593, 417432, 67183257, 18552542, 83462486, 116615531, 88848987, 68979133, 112749866,
     98305740, 93898936, 19886757, 10690095, 44298696, 31860667, 112761219, 111166591, 110146922, 23659072,
     33124165, 126964350, 2949475, 128387904, 108242164, 120302964, 22661858, 99698502, 105720806, 112520585,
     91759188, 75351011, 22590824, 96340519, 10534567, 57334762, 124506998, 116053350, 80245880, 13912803,
     83283465, 84360100, 61406194, 95309018, 20142185, 82535461, 80795034, 5375259, 33886336, 45667623,
     108165349, 99054825, 98343873, 50535341, 3659739, 83988644, 125147697, 119383804, 4874257, 66618290,
     12028501, 48098959, 39290167, 90146725, 20241249, 61487398, 31694856, 68107174, 47755941, 21781490,
     98717100, 101063021, 54319439, 45318047, 36217278, 107820313, 66077152, 126758010, 52692974, 1984264,
     41710064, 71181301, 120868655, 38685269, 73879940, 62937045, 131174678, 4688000, 103738547, 71376067,
     76571119, 74100995, 35224984, 125371418, 92186595, 5140653, 61192240, 53024762, 96823020, 16108217,
     54194274, 46518367, 66572669, 6865561, 2776128, 36648109, 99315548, 133637941, 4600117, 34080563,
     91365414, 91320877, 78115213, 94316009, 104141898, 124704787, 38893290, 133538649, 92088234, 102284830,
     27796219, 102354079, 71037685, 69291381, 45671659, 51817673, 131325946, 111990948, 130441721, 33639495,
     28047443, 15568638, 75972365, 131764776, 44217048, 108018351, 129994994, 126580900, 124087772, 32567474,
     78671164, 90444480, 96648099, 71508524, 91445860, 117526959, 47426590, 21817227, 122991967, 116507479,
     120722610, 20542801, 44380227, 113577258, 100313646, 110069291, 1220324, 78508337, 109569865, 6879315,
     75815480, 20960348, 127816443, 46248903, 48746949, 39082942, 83981787, 39382735, 43352652, 66418867,
     105063675, 54178098, 80624991, 57848595, 132536117, 22821774, 135934, 105809215, 18892318, 76316570,
     5852078, 59309320, 16891012, 45814705, 124739983, 1250605, 127320050, 96854833, 64479878, 122125519,
     127062499, 89148626, 109842125, 88964419, 104504303, 34574338, 100298485, 82169805, 25186572, 9428267,
     73669058, 125638256, 56892107, 37407448, 127478393, 111420094, 23331542, 71072263, 22798068, 8494232,
     88430927, 85817486, 21126110, 77804266, 14771153, 126386635, 67635426, 84842939, 106926025, 72936983,
     81207855, 51633391, 101301363, 58336064, 35669506, 41795101, 38247064, 1830074, 57539628, 104492690,
     132989351, 110025111, 96357357, 37640123, 127004056, 34653777, 72191750, 70768344, 74431763, 42671856,
     132887675, 45937874, 25499794, 94700363, 105037510, 57941309, 106235187, 19019623, 113379302, 795584,
     100670370, 68631076, 20848444, 105313869, 88735048, 94139094, 123977342, 104894903, 75602853, 51559010,
     48444749, 62294550, 127442437, 4881386, 75376494, 122464159, 55248901, 85451775, 82427602, 107169769,
     107927832, 102037129, 30642187, 120771031, 2106150, 48616671, 71013914, 131741545, 126346854, 21275738,
     91302678, 26106612, 84679038, 47576584, 84263922, 93964371, 66704830, 2569124, 98102323, 98684685,
     33446311, 76713320, 119689231, 32491383, 36839096, 24849286, 126828372, 101747062, 124352283, 56369024,
     10458852, 76925625, 60153661, 31773841, 99862859, 95806741, 60351547, 115932273, 68303270, 120119398,
     108290075, 108758178, 94622446, 13478363, 128581150, 25270435, 22076936, 59122349, 123958029, 8754999,
     124552206, 57277017, 85194560, 52981408, 126217120, 36487458, 33914885, 58682214, 118351485, 101700754,
     103814633, 47803406, 81831072, 43991475, 12164051, 41207409, 4044564, 66104657, 1472300, 102344618,
     33629333, 27217706, 102321208, 53405027, 51891933, 58466844, 104078697, 85278343, 83972313, 90338791,
     52245847, 93563063, 118131280, 110400634, 5156274, 78207223, 62453252, 47591335, 111380895, 76341519,
     17020617, 75754537, 95360026, 37359474, 44038962, 110327669, 3261662, 53431098, 63582283, 123603835,
     70020414, 18165025, 5581612, 10936333, 75956409, 116091455, 46631780, 48455468, 603068, 9311126,
     25605169, 96272727, 14872756, 90113291, 72561050, 63230273, 5787490, 42215802, 124571844, 112926090,
     113422297, 128111932, 126875702, 3407719, 42251879, 52700405, 121502932, 16813540, 132112176, 133253393,
     102640515, 85304976, 36920963, 54548337, 90045238, 19076627, 79948555, 19795707, 54251248, 116314301,
     41083758, 68651296, 8032688, 21865651, 16828550, 119833521, 17979290, 122221445, 64544347, 94665513,
     86153471, 96136632, 102551531, 97116492, 6269814, 97953300, 110563178, 69740624, 5834608, 110527377,
     74483702, 92769752, 99877833, 93592228, 84721098, 51977771, 127463714, 24188905, 46264629, 107393850,
     78635932, 109118935, 11113102, 10835319, 75134626, 23410974, 109159117, 35646007, 27058899, 107401109,
     35026062, 44015114, 94006853, 95116442, 34075460, 105002492, 34795338, 69449084, 125562736, 61267554,
     134022176, 122137698, 20830380, 101558836, 120817750, 60240267, 74185693, 20511035, 5180957, 84898632,
     78584844, 23751975, 86107336, 68749328, 4535981, 120255013, 101695688, 42423566, 109763276, 127069786,
     9615793, 25888857, 87026766, 106168733, 61276765, 81992626, 32040628, 109020741, 61561696, 70096926,
     21392924, 95231606, 44783879, 122496322, 87940435, 18102784, 63952808, 103551778, 74614332, 7672495,
     72939657, 11061760, 110138294, 69480582, 46088059, 330241, 109113924, 104000626, 10735685, 13956138,
     57409357, 81542754, 47287605, 76540906, 60610127, 45071305, 111871794, 50743085, 68773083, 48594184,
     132506001, 112919066, 115623300, 85438760, 15951340, 18268171, 42532461, 124220956, 3050165, 24508059,
     98482717, 16790624, 2577088, 45350754, 118908654, 81534310, 25950040, 5924304, 55544166, 86623176,
     8326774, 93796979, 41775923, 106940179, 52279816, 122362530, 7010322, 80590869, 103018904, 106629111,
     95475743, 22570238, 48034326, 123265501, 112097646, 124400863, 10391378, 54791181, 7248616, 59150648,
     47644648, 81086543, 121043094, 83233149, 101531376, 34336679, 90236951, 41572982, 75529111, 113963199,
     107879584, 60886249, 55328130, 24248617, 4118951, 60898482, 107696880, 35453532, 25567595, 127410894,
     52030690, 8602382, 47997514, 12925868, 16557854, 3514715, 47081481, 2863820, 23768198, 54192194,
     82679976, 92686997, 87702474, 120393197, 1831609, 43325921, 61267151, 106133438, 74363688, 100127970,
     116992626, 93260854, 66576195, 63959120, 10797874, 115155674, 6942261, 71888851, 115710322, 53946555,
     106129904, 105188298, 115218930, 124214440, 35197615, 3730799, 86972733, 69238232, 12847058, 112286534,
     110940765, 10749825, 44776770, 48123716, 128197692, 13218555, 63267896, 129942405, 4438271, 20706016,
     122011414, 69336496, 83957503, 108010778, 38531397, 128826280, 4939735, 97510, 50557992, 45324126,
     21053467, 126757102, 73588937, 93412427, 19714393, 21549765, 23436331, 104599304, 123597010, 21337293,
     85915456, 91246183, 32558725, 126587936, 117963461, 125378213, 83847939, 44059719, 126916195, 3200838,
     64815994, 128658408, 119172032, 83998522, 91059186, 53432654, 5928203, 30390326, 32251243, 85318420,
     37792545, 44099796, 22819252, 129684467, 31968911, 47255669, 30338595, 21960885, 117889302, 56471810,
     62129224, 48759480, 117643426, 75884123, 18521762, 51876500, 75822075, 103449577, 1807601, 21762176,
     124862941, 78336377, 756600, 92199536, 52332518, 96431021, 107587046, 23080387, 134201831, 19982176,
     2618553, 3377737, 110606881, 43395741, 68462847, 496176, 5124704, 6335787, 104303182, 124226183,
     15019287, 76906927, 82070676, 19823246, 104465042, 20555725, 90407843, 105609101, 50985868, 105723696,
     3548936, 56201962, 58554358, 76241551, 122633997, 92131229, 44684217, 95456350, 33280455, 123820785,
     18499341, 48858844, 68484925, 29079995, 71584793, 53739127, 9804369, 17421142, 54728417, 75981851,
     88406728, 47055777, 129661128, 12959629, 57920468, 120219398, 58523672, 32969971, 63234531, 51238865,
     30203483, 122988715, 52994211, 32219599, 86605965, 64583294, 53292384, 123536417, 78030932, 9263396,
     112149956, 33872354, 133944940, 37027347, 118788015, 70677169, 49901698, 72791650, 2916166, 81071974,
     82088179, 104635433, 63693117, 117675605, 31811898, 37081922, 5409524, 82002543, 43160426, 116411469,
     107115318, 52449017, 129401862, 84034013, 14315681, 71735616, 117794767, 114429017, 6538775, 19355167,
     95761103, 52670981, 3596459, 103044891, 56512331, 98113489, 116800405, 131062272, 52762082, 58110453,
     124092922, 14068534, 95723431, 61832277, 81092241, 62006924, 21659929, 22764506, 45700570, 63667396,
     55176393, 21341869, 79215955, 123267203, 133685978, 116043477, 38078877, 102251213, 67587067, 15101594,
     125285257, 49430037, 46361594, 19151976, 84369906, 47999117, 102828434, 63441811, 84593370, 69621054,
     101123754, 7235039, 26265469, 117727559, 128491689, 34578827, 23742821, 97100684, 78340361, 43576629,
     39734166, 51017966, 85150817, 5565004, 39072178, 74012363, 57876477, 4684322, 91566360, 55102676,
     36113796, 50353442, 97693847, 27940749, 46557133, 18007012, 17737691, 14804073, 82292743, 47910857,
     22247666, 4191058, 57791126, 77402852, 53471995, 62212510, 10223209, 86153646, 95397912, 94896714,
     91378592, 10445496, 104393878, 57099966, 73137003, 97470247, 74345451, 18562412, 22714069, 20531044,
     27845333, 22074996, 30635128, 3989287, 70505046, 18194033, 109921981, 66174989, 47912254, 120776931,
     118362854, 83664704, 98767909, 38660005, 96159907, 106464891, 44986041, 91830778, 15901779, 107718015,
     129223550, 122692265, 114703897, 112486750, 54877332, 103806756, 115859184, 35133974, 120690878, 21249309,
     45966031, 84285543, 67318443, 129994201, 44532078, 71555686, 93302462, 19405265, 122429024, 50484517,
     132143272, 99294169, 99828337, 74555109, 40968935, 31478950, 118177808, 122785587, 133227151, 50810347,
     46509954, 52380490, 127334016, 63253227, 68658596, 41091900, 129471177, 55042849, 133661528, 54532475,
     109111241, 13114786, 91729367, 130623235, 20671472, 19816739, 659986, 78314977, 79922744, 85100933,
     94551007, 131671645, 125565790, 118311330, 69406658, 14336323, 93529167, 104593499, 86886647, 93693460,
     27503913, 79965027, 86476494, 80950948, 131764390, 68914370, 14922992, 35793087, 92414709, 98236590,
     82450637, 22634110, 50446367, 11459108, 106481333, 4834667, 1407388, 15488525, 119777460, 48609167,
     109704732, 96967393, 64519110, 42728707, 14514191, 90727775, 60750776, 49539029, 78417096, 93506869,
     34075663, 89461793, 65301147, 108996571, 104116552, 30697696, 123846965, 21346937, 75382719, 74038645,
     111030512, 120081532, 10460018, 104759619, 114939773, 68181544, 123589638, 118909100, 22548763, 3460336,
     111063473, 86330387, 114026841, 22389551, 117931596, 133376863, 69409291, 54881812, 81638502, 88670769,
     27928460, 58812253, 95043807, 91760508, 54360502, 35450603, 2841266, 78844629, 18021026, 123434575,
     52105742, 22996192, 118806822, 59185011, 75825271, 7201168, 122977937, 50338104, 124753209, 107688750,
     11649426, 86443890, 78948936, 54383448, 44899593, 31285555, 68020889, 117227963, 61139504, 5248723,
     64416895, 83215385, 13664144, 36063208, 111824853, 68115527, 65804262, 73926077, 86568764, 52893974,
     63441868, 35608896, 24295875, 30839293, 72611869, 48898497, 21413061, 40594637, 114377563, 81719628,
     111616002, 123051558, 19278870, 61326891, 9240078, 129173502, 9192829, 64171093, 52780319, 75983375,
     127915056, 55026906, 74643903, 12380432, 35638373, 64732127, 30822943, 109316588, 14881148, 39821552,
     18934257, 48246287, 108966443, 12636428, 18607068, 88373958, 115972379, 7611285, 110460931, 89328041,
     18362166, 78718016, 74990769, 26642615, 946942, 4437717, 115700531, 54271366, 74930686, 93923873,
     101380071, 80761861, 65813035, 95847223, 92666872, 14367272, 124988799, 63479891, 75100967, 46611205,
     117400981, 104693108, 46042779, 117116457, 13090596, 92038325, 690502, 32438957, 30420485, 66805672,
     112553219, 132102218, 41808213, 36836974, 30147469, 1204210, 66522389, 47629193, 127091319, 128165261,
     68313930, 124354967, 45751020, 12303201, 10402114, 40904951, 76996272, 56679232, 30367697, 99182300,
     49324897, 129328461, 51158746, 115525459, 101761779, 19525561, 31088697, 38641651, 125613328, 26751152,
     99641639, 104185662, 64574771, 88584357, 118175285, 104900457, 48206710, 37970006, 51585224, 82197149,
     17363630, 111555389, 104496030, 16033626, 53847166, 47655209, 67142824, 116588295, 63212344, 30688549,
     88071232, 95200696, 50189166, 84847008, 122924826, 48150766, 57971624, 37233588, 48212883, 130553526,
     53804941, 102988481, 102850470, 95881046, 133285799, 37997771, 116301627, 14131600, 64387934, 121278984,
     39105589, 16190353, 59859369, 20705251, 46172985, 125209243, 32686318, 99766962, 25090784, 124775700,
     128295469, 45378425, 67015608, 30695179, 14760577, 91416409, 51527072, 130904006, 52172701, 62386876,
     68925437, 61978494, 131538919, 125595644, 131081528, 134065320, 75953021, 111199282, 82958840, 29615864,
     90681399, 53591556, 67407120, 41769302, 65320823, 31226622, 42214688, 69513799, 91794422, 220286,
     12333975, 63319371, 42566514, 52917809, 119585117, 127479747, 30518178, 110161376, 129866708, 57894979,
     132093024, 6526960, 77226553, 103531029, 5427225, 54559887, 12546431, 35361359, 26884030, 97365560,
     43863906, 23967473, 15181127, 24269683, 106999818, 93771023, 48875999, 3793333, 31371205, 127894169,
     5864492, 1086146, 51361347, 71749704, 604883, 17402149, 15635217, 110260616, 81154146, 81319680,
     125486248, 122471593, 26758441, 10947384, 99463551, 62557599, 26535585, 113785236, 200681, 69822839,
     120331299, 83402391, 113562792, 55727728, 8962887, 72065766, 23774695, 124282912, 31447338, 30460675,
     124597184, 55757400, 51261655, 63711129, 108364945, 49639, 58493902, 28199628, 51169792, 131005331,
     102723277, 5529154, 82646041, 128115778, 36147209, 3832287, 78223514, 46582778, 94469530, 49320466,
     111008542, 45275060, 90889437, 60923071, 85999616, 18035976, 79980658, 69394703, 12354869, 33785054,
     126861128, 13858916, 95944457, 13889835, 36624143, 3238907, 92925737, 19045123, 83324705, 103631046,
     88429544, 18240767, 50856301, 27794987, 76930360, 130979222, 88587355, 42887520, 27065819, 56528770,
     68184238, 67158543, 16151983, 75107999, 14164063, 93029775, 122280480, 63701205, 16716445, 68316404,
     119892263, 60088001, 63055381, 23981495, 61055995, 73521076, 45609240, 17298217, 55863796, 34149611,
     50631273, 10542788, 75830727, 67838983, 45042572, 110070519, 110323732, 115866443, 31348127, 60908232,
     33349095, 47116952, 64498536, 104048274, 125504485, 55067102, 3209907, 59995136, 97094931, 119189019,
     806190, 74150439, 54339417, 128657768, 102570160, 104053773, 59871726, 30062557, 57645028, 32354455,
     33986187, 64052994, 63766257, 18923679, 30636471, 59177789, 38053583, 48315312, 87683577, 65254700,
     80456421, 125073520, 124761487, 19972708, 130039406, 111612754, 70112682, 91871956, 11751636, 25180156,
     40252311, 125194195, 69498596, 84678426, 90350394, 16476022, 126996445, 7918434, 20818167, 46011299,
     4923737, 44887824, 116774212, 83454701, 108067332, 21522495, 102776993, 120800731, 62894530, 52385024,
     90970186, 25183528, 55226464, 66585362, 25776737, 22482958, 52464873, 6326136, 105635605, 127252830,
     107623239, 103637929, 129001284, 45494946, 119140664, 101984005, 91547836, 111374757, 69915628, 25185038,
     97163840, 44030326, 24589169, 69687242, 123894308, 72850411, 95640408, 114261466, 79790500, 78207912,
     58256093, 20421010, 85032512, 92440408, 82903435, 66228978, 120642158, 89013620, 76602930, 124662286,
     28638996, 80270760, 59240935, 4416699, 32610681, 65465766, 121460355, 81063278, 113216118, 42639289,
     74600778, 98126641, 26359230, 69041, 5844110, 8357033, 18007919, 32594738, 59487884, 117327299,
     90490139, 81869154, 30064516, 88695265, 91874766, 14637006, 115688887, 129607729, 101635177, 69219014,
     57113330, 124098619, 86668132, 85102842, 132656431, 38438943, 118837933, 91674045, 45385658, 66227014,
     91999146, 25789426, 21905847, 50014656, 74808729, 113177472, 47853178, 96302010, 58807003, 52454672,
     58908006, 132878785, 89017618, 42617761, 113547661, 133123747, 62890648, 9035969, 19674277, 29497590,
     101220873, 15206435, 100883817, 20907121, 128022940, 125681763, 52889301, 127602212, 62260786, 94993152,
     72557532, 28188404, 119738775, 49375522, 94518341, 6254965, 2855901, 54510938, 27826380, 11753214,
     114607826, 55342949, 78580965, 76451986, 117294008, 106128835, 55217057, 72590838, 28248521, 85010625,
     555758, 128941396, 133687696, 89759939, 18304819, 71248093, 86297806, 121658815, 65727617, 41423871,
     51022787, 73003015, 72102052, 8864447, 10507041, 81181112, 130195786, 98043536, 66134032, 100970244,
     2052124, 27374581, 56283322, 82814143, 101629919, 48319926, 41887161, 11235799, 99995215, 3118537,
     102993680, 108514310, 32094239, 82391539, 129919067, 116173263, 3743164, 78905997, 115911165, 128625969,
     68806600, 49326612, 20586246, 62512154, 34680914, 14788846, 79660542, 60015851, 37373887, 117847365,
     112530971, 131668255, 29464618, 51367456, 51547834, 100123558, 68023311, 124473567, 45603555, 30642780,
     110614574, 79219495, 35417669, 125572646, 11942314, 5906864, 20774916, 42350548, 84147194, 78407344,
     75640098, 65100960, 8495756, 128207281, 133284802, 70774895, 64349432, 58344354, 42874135, 51745150,
     97866520, 117059973, 3260398, 15649514, 58283933, 81490973, 89176115, 125586967, 129135738, 17928755,
     102225292, 19024137, 118804058, 4177143, 15959280, 94690462, 57682834, 33269910, 4266838, 84465973,
     36506443, 35455758, 51579452, 15492689, 46146884, 39141862, 50162640, 82701879, 107787573, 85517870,
     25440115, 99999536, 110661927, 72708193, 72735417, 8000127, 45465601, 69174739, 74119830, 1872841,
     21665872, 121874619, 66498810, 109991692, 2946521, 85517595, 115826554, 34609111, 44504053, 18477505,
     46176662, 133649929, 133567040, 13330865, 82336634, 75328402, 56056529, 128219085, 106120148, 101714743,
     9081803, 33758889, 76571778, 13984229, 69887300, 10077349, 115592087, 134082538, 78678478, 17214987,
     65132161, 4651864, 69823532, 112828339, 104944480, 29983117, 46616608, 12994407, 74865227, 112251423,
     94944315, 29120586, 133621191, 23782176, 93104716, 89034975, 129100163, 30890718, 53557257, 27032150,
     81709201, 93735264, 100031782, 58919479, 46763597, 21201245, 36128048, 96738631, 130571449, 120069250,
     46779437, 130706568, 134204665, 73454345, 114389875, 26949946, 29000171, 62509215, 111161702, 42108825,
     132020198, 17242194, 37154181, 75309289, 89181561, 104177866, 103292517, 61279, 11177920, 88622225,
     109968853, 44034344, 41387476, 117068428, 94808959, 104963459, 127525393, 43388318, 4712253, 11350677,
     82102713, 1895173, 39245884, 107823623, 15389242, 22344913, 95543534, 36950878, 131405405, 27032609,
     68814838, 74446902, 46485532, 116107447, 60275785, 11933093, 55649070, 67475160, 71390665, 111599896,
     54918651, 16469610, 10787409, 79667695, 131456565, 62137244, 133775786, 43504073, 23371944, 39804538,
     32351836, 84332242, 58647280, 90413252, 93782347, 38484559, 4207046, 3074295, 112138583, 1103394,
     85689076, 113502679, 36143970, 10223865, 116885818, 130974987, 88745998, 42025392, 42536856, 131225694,
     73530644, 87710185, 131431040, 38578791, 6500562, 105129779, 95088162, 33395077, 114006364, 119228350,
     92921194, 69337561, 18792953, 34839144, 80148063, 7527970, 105489127, 52158898, 56182992, 37698545,
     78172200, 30258027, 34019892, 127614687, 41976399, 122208860, 108524447, 71510514, 65699327, 119371145,
     60238491, 95061905, 16493189, 56861927, 50260633, 22754702, 69889997, 6883252, 31005950, 94785546,
     108439275, 64064787, 51499437, 4108041, 32009558, 10885210, 41378989, 13209905, 110657622, 24510615,
     121352083, 17271146, 128888995, 58742945, 2039314, 119925738, 101185957, 48610141, 70529273, 55553338,
     16718170, 70777782, 33089176, 67086464, 37807903, 36044321, 54253045, 57915546, 63179139, 93601314,
     125733671, 124404687, 7832283, 22042882, 95183092, 119040039, 114636179, 70361498, 47955983, 27174148,
     33449366, 20287061, 29703522, 107230447, 40377950, 105880287, 19501566, 25002115, 74044965, 131925994,
     33608052, 73037184, 3657639, 24326902, 31223530, 115989612, 110143376, 96874355, 56018482, 124184576,
     118586228, 94654382, 126649946, 21051257, 32661659, 101771765, 75158230, 17289958, 118254798, 111839472,
     78036916, 91430249, 22548616, 99990470, 33279721, 70332133, 132556760, 103877755, 40183024, 107186653,
     116461122, 114822343, 106704749, 95146720, 99587501, 2823240, 96897449, 61858008, 106029570, 121443990,
     113737134, 26814691, 8370681, 55303209, 22523053, 51139131, 67850997, 52063520, 28519861, 51648025,
     71567311, 70616202, 66193813, 13829240, 17014975, 114864178, 11537510, 71512405, 1564011, 120678197,
     110734474, 119964789, 10971181, 1415647, 129059113, 100244136, 132047676, 32618922, 100085682, 53132404,
     60449420, 90476032, 37015700, 132162279, 55358426, 130591299, 46344477, 88830303, 53189833, 34662291,
     97468348, 10285797, 119792839, 102280857, 21168152, 78655817, 32570693, 99424420, 28171885, 115159303,
     6086235, 102221047, 114648861, 7202153, 68622241, 108596595, 8997255, 93029319, 59895367, 33418615,
     60479956, 95313332, 104415480, 120392338, 102193035, 88785442, 18050806, 80506768, 84137820, 118129821,
     68408936, 38809677, 1810835, 80311279, 19828767, 47137346, 89502880, 48047189, 49261369, 111359547,
     129343664, 39910094, 67343793, 86121785, 92379803, 34025287, 17933856, 3020168, 64350482, 108302086,
     98532115, 125525761, 111868016, 114813580, 26790855, 81680147, 53271918, 45550433, 63555719, 40455867,
     59105782, 18699507, 63812700, 109886891, 39715055, 125837553, 108544660, 94084227, 122551247, 44543855,
     46842084, 114509777, 85612129, 80945505, 51097483, 53131676, 77678777, 53857680, 93353656, 120168773,
     67312375, 39984034, 90540872, 109371292, 101622381, 75794066, 113185224, 31573502, 25341634, 57891317,
     29042689, 35588809, 69037754, 22469459, 68405007, 18826091, 108411080, 80176862, 69442020, 101547451,
     120802997, 71367837, 104368085, 122308888, 67956557, 112232179, 110907614, 86901750, 63868305, 123086879,
     45864232, 34758929, 58173109, 40486939, 61231202, 121649225, 87312920, 70695812, 7000406, 105959213,
     97912997, 26081753, 129954003, 34492863, 61581451, 92794694, 9230461, 2453309, 27012174, 80153438,
     13853153, 114847736, 34407205, 131398816, 106556407, 126604260, 140852, 110791501, 117249833, 29069251,
     126103883, 120249415, 24830693, 82967160, 23298376, 121764243, 129622510, 88756558, 48369405, 81791986,
     108954771, 35926633, 1209392, 90529798, 132981794, 88136191, 2213278, 2771726, 81546744, 123007025,
     124614497, 22478529, 111569943, 116789616, 41661525, 129159377, 110337765, 31693783, 52753960, 110489305,
     67082881, 99098176, 48758347, 115191038, 47609453, 11785860, 78124814, 57973501, 104967388, 15480808,
     93884110, 3319715, 103089678, 23111035, 1915725, 79708519, 71362679, 36580081, 47350484, 99102177,
     27999808, 116850578, 123594639, 51533165, 26415129, 42851470, 24759810, 106786932, 24000021, 66613142,
     88328003, 20286531, 82106343, 79377930, 67864975, 54718979, 78759198, 84217761, 126242015, 122211757,
     115589661, 30426063, 121592473, 368941, 7268941, 58536960, 120448703, 81132019, 4207812, 86755912,
     86925164, 87006547, 124934180, 18192898, 67439499, 11437786, 56280267, 41649031, 44525785, 84951614,
     122960030, 84056931, 124281490, 110910585, 83097619, 25375846, 95889035, 8249368, 45516860, 130394877,
     18545503, 42429271, 131399286, 131539753, 88184015, 100263922, 36827673, 65236055, 131141934, 64592160,
     81734560, 122511320, 44370379, 36181695, 120233985, 86699577, 10455618, 61560073, 107931677, 101286992,
     21418332, 120533192, 14451819, 68777200, 34754884, 75017804, 95942260, 54299143, 81605492, 60101552,
     56543026, 90052342, 21346818, 81534241, 123983876, 56258382, 102849055, 16965583, 92109147, 88164949,
     109106807, 125922946, 103917439, 105704188, 15089429, 78453751, 103797846, 14956866, 112571822, 24967903,
     100227874, 129337906, 64730160, 39487734, 92133174, 97840149, 13422794, 91882226, 102588697, 57145733,
     35195615, 37060785, 105377881, 14849704, 85266386, 47740770, 68327353, 110758441, 71943004, 107617919,
     10030199, 1084072, 5489224, 81581279, 1989752, 130689311, 104091547, 127959788, 18588526, 119232978,
     16490867, 54774515, 51682252, 105202545, 131225071, 64603396, 118906746, 3630294, 42048941, 84814618,
     110031485, 18849581, 11418945, 94342062, 52618763, 86423154, 77739684, 100596820, 132371820, 30214336,
     6537337, 28083479, 55354211, 122802911, 123428023, 121131319, 3705843, 6330782, 80407475, 104960430,
     53605721, 17782031, 75197960, 98132322, 94401960, 39889546, 54585734, 54320743, 119729224, 131234345,
     128273831, 111849837, 132212398, 73329244, 7352245, 99683107, 112317348, 59819217, 117893162, 72799668,
     19515963, 75238092, 126356527, 121054564, 17060932, 86468619, 27825224, 78994214, 128251309, 22596172,
     111505828, 11983287, 77383390, 63029032, 38628980, 35953124, 33918898, 28405034, 54108337, 91891543,
     1207086, 116086692, 85410683, 115730115, 6918938, 70258861, 103864675, 104444115, 9417204, 117602081,
     1376319, 85829417, 38206016, 20737447, 103708970, 18904502, 111754649, 102234531, 68089024, 18063366,
     125936130, 133563587, 15370214, 127945815, 44589734, 862327, 99367462, 110130520, 43395264, 112415279,
     19509989, 44327414, 77626267, 100805697, 8398539, 11561052, 50065470, 27797267, 34073685, 60540726,
     44535101, 91576162, 65120055, 63152307, 71900765, 70658400, 11322266, 10854291, 42349466, 58888925,
     51498904, 104226187, 54130600, 72774078, 64429254, 73991903, 57159575, 69612161, 9935813, 121661728,
     29437247, 19290202, 86474607, 53634909, 111234822, 117371537, 68644397, 42062638, 19889693, 118018222,
     9457921, 19216415, 20923765, 4623347, 51545935, 86508204, 75860721, 15553047, 89155097, 9142111,
     70378316, 35918263, 75872028, 40628770, 47275967, 125938308, 89334904, 116683153, 97557530, 64016689,
     53972357, 79386415, 109375701, 42839387, 99848866, 89882191, 121432682, 83528844, 62645897, 68774643,
     46334903, 31178194, 104314510, 67400993, 5045704, 97335150, 51523002, 104911557, 131156652, 49121782,
     45937880, 106367411, 68762747, 925436, 33523499, 77089834, 10327648, 63792834, 14891691, 49390833,
     58412907, 102889310, 83081084, 32734965, 73249111, 3260116, 69616348, 68156894, 14985534, 130800747,
     5403509, 76491353, 48143388, 5334965, 126498180, 49091040, 24134703, 45756282, 36139651, 65235877,
     64846082, 101464970, 122702813, 118413294, 127100747, 56249169, 174962, 108872748, 86959075, 103293730,
     31696606, 87825473, 87843046, 64077584, 99703187, 97343876, 119069833, 46205817, 91726741, 107749794,
     113710546, 110855720, 105291111, 97393980, 21570954, 123751117, 5864343, 102167242, 99157190, 64456315,
     70587639, 88382302, 133931240, 124584561, 22131233, 111816433, 51710055, 93327402, 38625657, 91932444,
     117936757, 77882006, 64920546, 28592239, 122627971, 3663487, 94917435, 60966844, 134057494, 83628005,
     80500976, 110849027, 131017863, 90043882, 23274204, 82083648, 59281294, 42311871, 77630353, 43991364,
     131304654, 57705457, 76219539, 103273710, 116133899, 116107557, 84356588, 19339017, 68773301, 57650965,
     52538373, 31840229, 49477224, 51134581, 39623494, 32295217, 28369597, 34214441, 129194901, 32453543,
     72002605, 78806510, 116215041, 124523253, 118777825, 49937705, 126473346, 61140879, 31966207, 80440114,
     45329204, 83749468, 84978596, 19658016, 43225362, 32692076, 19317701, 113290246, 101986577, 34453794,
     73872350, 23216380, 72010900, 94576989, 95357808, 80053670, 15400175, 119947345, 123736532, 59980832,
     64400764, 27489745, 92855702, 24363422, 80574158, 48041581, 81232988, 33430103, 95282732, 107662838,
     11917949, 72587381, 66670403, 121432287, 28224568, 39425508, 52302481, 36699419, 68685357, 27116606,
     47506181, 113286456, 54588082, 42322162, 98095687, 2783275, 5815287, 25781921, 128391818, 26441012,
     81056437, 111571109, 21951931, 113669228, 74788636, 61516527, 10862987, 33669119, 67306661, 38623277,
     92426545, 65289005, 56341640, 109242725, 42168702, 113883385, 90424376, 99687913, 125531852, 93955933,
     117257417, 93559239, 51723246, 7308494, 115883886, 122766530, 15439623, 119796200, 7881345, 44915222,
     131961121, 21436304, 102395875, 35718961, 82542349, 96663926, 74998283, 58803925, 41457030, 73545493,
     120672765, 55682557, 114454227, 122960645, 64654693, 50328416, 29579278, 126976512, 90784224, 12035146,
     97467470, 10761222, 133614588, 130683256, 106082761, 84308698, 12246946, 67931743, 132867611, 2352811,
     114690768, 88598416, 78185039, 68862894, 44416826, 128271846, 98371890, 109613616, 80077155, 133496063,
     12853438, 120947489, 75633384, 31531237, 2710786, 5536416, 105857072, 12814473, 110539808, 125240061,
     97994444, 41887905, 12278024, 109490942, 78932602, 116811106, 52532223, 95265604, 17232623, 103638576,
     119734352, 77278276, 126472575, 124424145, 123786821, 82022671, 71298849, 128634606, 116021627, 118271938,
     26553127, 37275401, 39659183, 21306524, 121965158, 24656296, 79238652, 127665066, 30335328, 18375029,
     17461383, 117564955, 30643507, 34611964, 66572916, 105828056, 40733617, 19497629, 98572417, 82706377,
     36414747, 27438991, 10527717, 18300786, 120556060, 113201204, 89099003, 54620672, 130736695, 127809994,
     24427235, 26692539, 116821440, 79025832, 2307947, 47170643, 72185264, 88381105, 64389939, 91013456,
     16937792, 101382718, 109403381, 99495212, 36353131, 10947230, 120585790, 96668094, 93873683, 82939663,
     114401896, 92778844, 116297106, 37482816, 106271312, 80413414, 98849793, 29604927, 546335, 120023596,
     19250849, 110583627, 27800791, 99366040, 77508377, 90657197, 452933, 56129512, 17066660, 19525198,
     65091129, 72283089, 5511553, 67554578, 42781415, 127450264, 29526335, 89900327, 23408518, 61287267,
     42494090, 89142490, 118274912, 59403309, 31063707, 126248055, 87128622, 85542106, 98515568, 36955735,
     90634625, 94958035, 25332987, 13473196, 46949458, 65785951, 36528299, 47328568, 72295886, 79004913,
     130061697, 37946542, 29242362, 38351184, 74137939, 52675868, 8788125, 23515048, 50407772, 15273331,
     128066925, 79188022, 121933760, 87469913, 12778351, 69378213, 114424086, 18586386, 96060485, 116802329,
     123201600, 122845734, 61849604, 19351576, 56714373, 35111049, 120279615, 98456503, 71961816, 26183434,
     102189015, 106206096, 23842719, 99195603, 9184967, 35575825, 59122080, 130759313, 43896113, 50488350,
     68702492, 6880389, 46214295, 111819492, 115774603, 52347548, 98731223, 96896121, 51533817, 73763072,
     16893511, 103646622, 95273725, 95623103, 72623273, 76401020, 20393750, 88055320, 4668730, 40989027,
     82772097, 59548767, 69289626, 102194646, 77236299, 132687822, 55815947, 28203783, 62909438, 27306150,
     52536336, 132850007, 11774297, 13095587, 71847437, 53970875, 16321443, 68010613, 90394112, 62621268,
     100585204, 87704191, 22539054, 4332765, 27046442, 31274027, 32307700, 12769116, 80330668, 50731878,
     54558511, 9349974, 119122300, 111207957, 73546908, 28537318, 70549706, 26670646, 29325753, 66006437,
     12194654, 25697992, 124112473, 115330364, 13373318, 68881024, 17478506, 81039938, 26213844, 73851548,
     77420324, 69765663, 85769616, 83351557, 57933270, 80632254, 53002256, 116061590, 86037225, 122534474,
     35177721, 90282204, 107434640, 63261985, 85906020, 84597669, 80914851, 105854769, 3875752, 47082526,
     46355352, 131571400, 103194614, 105817869, 27636455, 94228290, 86502544, 4652619, 130824666, 26521043,
     59128342, 28889372, 69517704, 91550824, 28459544, 110820032, 941774, 19239924, 31756066, 60900122,
     63329288, 12268660, 81103930, 37052816, 112196548, 87101481, 38925671, 52637892, 44163597, 99054589,
     96723822, 125766425, 89158321, 120429875, 95901586, 39924374, 117747167, 90040703, 11902603, 82447624,
     16708278, 110948030, 66617966, 49736917, 82222396, 83397714, 87787993, 11859142, 30883162, 115590003,
     18266493, 54943060, 123673027, 118047988, 32221764, 115007360, 2392865, 65084895, 37971878, 19324260,
     69417398, 113358289, 85007338, 49681759, 99214955, 90887688, 19540593, 15536397, 68165984, 43146706,
     42975730, 91734377, 97265375, 10144782, 48250498, 121288874, 108869819, 112856151, 25718751, 26874331,
     133506643, 39620191, 69986442, 93592287, 56887530, 87379157, 97396061, 99004846, 50847759, 52983963,
     4761885, 19156038, 59173432, 10348557, 38627074, 84483299, 88746324, 20812115, 70694433, 25236935,
     111413883, 80847846, 65669932, 46965891, 20850172, 78571813, 19945335, 117598632, 76856179, 57631954,
     35550784, 99463673, 28400375, 15673174, 126403936, 21176464, 18696027, 59249624, 122952899, 113941224,
     71971241, 56883719, 125749689, 24088561, 112613114, 5142407, 40114765, 100670578, 63108725, 76893067,
     11446490, 91598002, 49213795, 86890780, 124383230, 13223556, 13555947, 66340425, 32968872, 69850249,
     5734643, 4041044, 115538413, 95380796, 91749572, 107916437, 79100576, 11578554, 62498864, 110257741,
     34902458, 98935278, 78630588, 34474606, 94316888, 75496272, 106434611, 50515525, 21806916, 31888726,
     83926826, 16370853, 91110455, 110390061, 78003820, 127256552, 97677516, 104643264, 69495743, 21455843,
     128129620, 66661537, 87266402, 125286553, 84295132, 32640593, 1766005, 30396830, 19265852, 94887834,
     80674455, 90571884, 102933139, 117014890, 19361996, 115986823, 85473684, 130389588, 20716019, 113847773,
     102435512, 108803908, 110220299, 79462294, 83297399, 23798466, 9115249, 14174190, 37505592, 12812414,
     36175877, 83612213, 62791554, 77469864, 104698570, 34624419, 77620505, 56351003, 133138096, 5570548,
     95059323, 10031644, 18972892, 111066062, 131416489, 60600572, 7866874, 46578614, 44675337, 34083101,
     85530418, 54733154, 52410217, 121543646, 2975941, 132047121, 39793487, 87631588, 32462797, 28494233,
     104172960, 11965011, 79531242, 96749147, 19326802, 33266826, 117119157, 70181056, 28588182, 60797912,
     42906501, 130739145, 117403387, 1433642, 102705601, 33618953, 56482992, 77610158, 69695473, 73513301,
     131421841, 17336909, 95402814, 44545267, 96063540, 76434633, 88017593, 71574976, 132639122, 52108559,
     124018379, 26901693, 40029010, 12742184, 59748089, 87113496, 85320346, 36195645, 31796235, 107486194,
     86876981, 35141352, 121235230, 104014517, 41107627, 11366204, 49381727, 19455931, 60389876, 3525048,
     51850681, 129659149, 86345273, 60035633, 6975189, 84764394, 104251751, 103520484, 38297993, 68503697,
     83484243, 103611375, 56890639, 62841648, 82045832, 113139391, 76363001, 99803337, 69465438, 26126270,
     21518209, 112401440, 1009686, 35807712, 14358177, 112711953, 51659516, 95020161, 34507040, 26553585,
     65068354, 118140022, 63193916, 35532694, 69174251, 54245209, 17811994, 81695222, 66761076, 35988106,
     127572178, 117240323, 23083753, 93144878, 2086195, 27883546, 45484826, 35126656, 95093175, 94886743,
     115528020, 109277975, 14665695, 88254903, 4187963, 58529264, 41625849, 43298533, 83488053, 96713434,
     123534916, 25842073, 44348696, 55070100, 104604236, 124995360, 17115000, 129133755, 86029880, 16633011,
     33549535, 47981524, 102163618, 96773753, 122423461, 63401614, 59244594, 23322508, 92236885, 112452882,
     47518123, 57403261, 113960589, 58567330, 55047219, 48939907, 78393604, 14169048, 132399678, 11783918,
     74844796, 107480993, 60777847, 17584984, 12892988, 2087494, 127455946, 107869387, 70450846, 115257561,
     94058618, 51842465, 87856533, 64425234, 31869133, 52788730, 85506178, 96747167, 12969297, 56620672,
     7689119, 90638900, 112865475, 39772808, 80635601, 22873169, 40449542, 37387791, 70711213, 16699762,
     74880403, 89762976, 90969859, 45282007, 18022, 130026188, 19387532, 204206, 12505043, 45540519,
     101077498, 45330327, 60711337, 113666797, 26628341, 32582854, 50262667, 118317012, 89852674, 76705269,
     61904447, 35101639, 73263961, 22979061, 125833585, 60361129, 53730470, 1993693, 13858507, 635518,
     14379879, 44242188, 97269917, 27880313, 41938956, 73118203, 15440146, 67245825, 104445707, 40431538,
     119295343, 12418305, 13738102, 73116216, 82747086, 38747246, 99386665, 8177349, 32995367, 123621451,
     112295796, 14933558, 91806592, 22085626, 59669148, 22222974, 22241974, 62443600, 34605730, 121364235,
     111329331, 93184618, 22522785, 59036620, 94574286, 111634962, 76630616, 3657869, 75258295, 50803176,
     2191999, 128953734, 16468688, 13481416, 41581265, 11121867, 84601358, 103150291, 51195395, 28005900,
     34425753, 97078383, 51518243, 30806603, 62158344, 86588202, 79803604, 67736846, 75128031, 112332242,
     49394542, 25041357, 57104579, 85872198, 108211600, 1123192, 79056298, 56495937, 130256250, 127098826,
     80862653, 31367468, 38022624, 46548436, 68869207, 42123002, 63471809, 84407536, 114477801, 102453771,
     98985513, 62754417, 118190489, 99933237, 96345424, 121300416, 33994101, 46249659, 36616649, 104072651,
     21985992, 25032326, 117983022, 29828642, 120807069, 62045362, 43428076, 86258892, 3117024, 49971151,
     63655115, 83469920, 105814498, 126367454, 94349229, 38428744, 90677996, 33177951, 2820567, 131830952,
     13678883, 61644157, 97873702, 69465880, 109864074, 120961318, 24456823, 26539557, 109572690, 52166839,
     127678695, 93954349, 80750043, 44529645, 74050627, 17837020, 4418763, 65973963, 55558492, 119731373,
     62679060, 106309071, 127970440, 117725028, 59171387, 49356871, 1598663, 26494259, 76114888, 27384445,
     9143031, 65814204, 133146616, 17652977, 88542428, 11778057, 96514552, 69660611, 93078274, 90165881,
     126298361, 74349964, 54351107, 82334333, 37438766, 27898801, 10564910, 57455023, 3062987, 73088774,
     64045412, 96293356, 99817956, 46000440, 99219273, 122761815, 385868, 26532636, 82766703, 39616405,
     111639913, 102616477, 116360020, 119126319, 103297298, 107630983, 56221222, 60247286, 94483594, 68964754,
     94158234, 38057521, 8617239, 131860940, 5219513, 11552646, 46457132, 50857151, 86349745, 55366545,
     51132431, 104904229, 86569054, 93356774, 102208510, 85949854, 103532548, 31166265, 38008222, 65056128,
     130424355, 53759867, 74329054, 88444, 84275792, 58374310, 85256247, 38726104, 90374994, 65110810,
     20670594, 53564339, 90540568, 110666630, 57919978, 123203688, 130015326, 53000680, 95851613, 123398287,
     130726742, 120012740, 133017842, 102983525, 111937584, 130172989, 78677506, 96875449, 80621362, 40530545,
     63040083, 73506426, 49616879, 40809521, 56202427, 109775299, 122606919, 78626153, 86745566, 103670850,
     22807246, 46527923, 5001039, 56970385, 58941872, 128666390, 59172068, 41656189, 8834844, 91498427,
     30434827, 132906558, 44479825, 31009487, 50564232, 3226199, 83873159, 45480690, 20936779, 24568574,
     110298392, 119576408, 66721148, 117742193, 9277849, 104118109, 13366317, 23779348, 126590615, 81060075,
     4292983, 30713738, 87105043, 132824039, 24023239, 1330311, 87805937, 69818701, 132552576, 122403846,
     123239265, 91143539, 58687569, 90620636, 57915421, 24094010, 38847959, 53264533, 59111367, 41810594,
     128570343, 71313922, 5081438, 21393553, 64268196, 21186107, 120222288, 120281560, 14309102, 88712542,
     15665986, 63565472, 109356693, 98383209, 37960292, 98477479, 107097165, 40971553, 40507872, 52504255,
     4336105, 78648090, 110036264, 35862883, 44536067, 102020062, 61915385, 9101812, 8033157, 102708009,
     87353321, 95443859, 111260171, 39421135, 29495146, 124826459, 125252835, 61039689, 85039691, 41521443,
     73577820, 124485436, 27628862, 50682797, 117583914, 9132607, 56901478, 5427981, 5725956, 106631491,
     124255880, 12272332, 49505871, 949244, 39539199, 41450830, 7784657, 157399, 4442038, 83849932,
     5785300, 20915679, 117435256, 79720144, 116484901, 22715113, 63046357, 87156307, 10904851, 78585753,
     18690217, 2713761, 127174337, 99661035, 75257382, 18113464, 106782510, 13639751, 10312214, 95159965,
     8766979, 81540800, 104304157, 88723212, 15543595, 27080801, 110152684, 13436841, 125419665, 65394910,
     58093602, 10777853, 15452602, 63562859, 96317624, 115373385, 59818984, 132499400, 67298281, 97593897,
     119183547, 22555728, 72458290, 13672956, 18548444, 114761273, 49997627, 97961331, 114039632, 56657867,
     68645100, 17448503, 10837670, 84091134, 67987113, 128611396, 4710384, 98035342, 118018563, 74228178,
     33301411, 12651311, 97868626, 106191378, 133498715, 50753102, 120308042, 49897361, 70951402, 122796840,
     43506302, 75389211, 93784324, 76754138, 73364929, 52665800, 121977368, 41166600, 32504217, 75965603,
     93073974, 12287104, 20466241, 81195092, 54370551, 114060305, 104339605, 129743367, 48902221, 98675270,
     38067408, 126484000, 47365743, 67834381, 50151000, 2813942, 1070672, 166275, 19209649, 34601851,
     99398460, 91468218, 92984331, 28117096, 87574703, 121229102, 18368167, 24993367, 15546715, 111190865,
     65706561, 98603690, 64948520, 89475318, 16884529, 36979319, 129630557, 34997219, 109702085, 18636328,
     117066976, 5479757, 23111220, 123144512, 88118822, 47150360, 109149992, 100261164, 43421425, 26857707,
     132251004, 84932430, 12760715, 67333830, 106465399, 66436122, 19409388, 84864557, 33730706, 43070561,
     25436739, 85200374, 15534315, 82890508, 90045683, 92662622, 32609430, 47328124, 107273916, 53605571,
     103273131, 13843863, 128502948, 36888006, 103977373, 124634404, 132879688, 52057773, 74803002, 47904592,
     4293693, 85600968, 44561421, 31080611, 52892515, 4529551, 129696701, 101631932, 56523091, 72086508,
     36261768, 104471775, 107340133, 21373335, 123451103, 35156010, 6264590, 99927862, 131663829, 35929284,
     96996578, 10678705, 133647578, 44953055, 87047908, 55903031, 1044851, 103825366, 91043217, 35791483,
     30431226, 87999959, 132669417, 130989756, 125102192, 109928131, 115529014, 104561177, 95114816, 24054462,
     34009916, 49566344, 124371586, 127598289, 110409523, 70301140, 85084431, 15220999, 22944879, 66762972,
     26742517, 116990039, 76090618, 81900795, 79631339, 9925490, 54762348, 38273063, 109188622, 93117312,
     91050254, 5721879, 34635629, 696544, 4032456, 107216984, 81441648, 21298245, 44211045, 23083249,
     119431760, 54296128, 31434405, 78255586, 73636315, 109850217, 26565560, 122786383, 129752164, 4237784,
     86293884, 72893521, 101077136, 115114317, 119568712, 25430642, 60918979, 117539569, 73382256, 88345417,
     60349543, 79611467, 83091261, 129083101, 44929902, 129338027, 110322087, 46526116, 49018679, 15707693,
     103533274, 106298082, 2241269, 56209105, 48812966, 24970257, 64410323, 116693188, 120937100, 30607971,
     96954356, 91363803, 98489541, 115713008, 85448977, 108102540, 120896415, 100419869, 97297078, 119298262,
     84755091, 121060707, 123595201, 51678416, 102568545, 80514265, 1984885, 89511197, 116584119, 124954736,
     25258764, 82495761, 100445206, 66348063, 55483223, 101681160, 52654277, 21709520, 20649949, 91097323,
     57561208, 51173800, 134143095, 59691049, 111037054, 128947677, 98883759, 96729202, 86293592, 100516454,
     28813282, 33916641, 8478328, 94095138, 125187660, 21243767, 121943124, 76307119, 297817, 40373857,
     122283898, 132690291, 100510366, 24774311, 13253373, 133691024, 20699397, 33593585, 23671938, 53409400,
     34441356, 70009322, 121174963, 86552680, 56529812, 43007591, 72273184, 97750729, 56954429, 65832591,
     62290085, 16101643, 33662693, 81235362, 42294818, 34495166, 33883186, 96863591, 38238285, 50387421,
     81593752, 68967989, 3129094, 67101303, 125800520, 86725203, 68953120, 127143698, 67393799, 27245600,
     56623487, 36541135, 98113942, 88064486, 102180577, 54583096, 96954837, 4865532, 129573328, 2893459,
     55632832, 74564001, 11494856, 127791187, 107150847, 37346399, 95626483, 108907728, 3415879, 3934815,
     66145216, 91097062, 108686056, 52346932, 127274563, 71608817, 46933363, 73725412, 63317196, 70320053,
     59714064, 74609539, 99870192, 98388004, 94416028, 120776311, 63740333, 77599852, 24832739, 108204617,
     78804724, 101302796, 3354100, 81492380, 47747540, 28219006, 41320512, 57771661, 8950304, 29421169,
     13071942, 22187663, 105806013, 81381698, 60821621, 84406472, 17275887, 131943539, 125358104, 66720557,
     42365479, 113551298, 59086258, 115442360, 93256403, 131821374, 20740805, 65597617, 105025038, 128266392,
     113456953, 33871955, 65934725, 45787181, 95221595, 70457970, 97090297, 107440991, 133126455, 30074692,
     104051993, 6029302, 48421738, 123798436, 68543801, 35407004, 52860184, 109138993, 71820637, 87261403,
     120227559, 79881640, 12911060, 41166949, 120019237, 17412944, 67633370, 18744739, 19515408, 8569850,
     125344740, 45629371, 26113962, 5942021, 3620866, 65717720, 63199184, 10465391, 76996590, 70268766,
     6783490, 18694592, 84405960, 62606372, 75580780, 18170538, 75584678, 34667073, 10865013, 40596396,
     47881834, 123476125, 17525971, 118345640, 62802697, 122518836, 49743899, 5738998, 44269633, 13858039,
     118352989, 13512861, 83784729, 90886310, 14771491, 41129625, 88230483, 41385881, 133713913, 77862282,
     49028658, 24225378, 103417867, 954308, 88200961, 101259336, 63760409, 54352489, 54304693, 84942228,
     28715761, 12257934, 56070961, 114728015, 35811009, 126655046, 65270878, 57973913, 89842057, 66142555,
     119033269, 50569238, 19518650, 57608105, 108686588, 27606822, 102268686, 56919130, 84298057, 103479640,
     25779815, 35921530, 9624365, 108629654, 18367912, 62408980, 43198029, 48704879, 39107387, 107360650,
     108769655, 60380963, 46116046, 33023119, 21779436, 61896699, 130959042, 17119779, 94609192, 45615064,
     107818245, 29406275, 66735835, 20716337, 13005558, 72032653, 78686389, 81140374, 59692402, 97867747,
     42687911, 23379851, 11741595, 88709513, 42427837, 21901041, 36548883, 125504728, 47816701, 88910553,
     95742077, 134073912, 15654274, 15092990, 50847188, 43226188, 101853244, 43988700, 41565668, 44732079,
     114886670, 102283656, 115972180, 201791, 25397002, 88362836, 87186198, 40590826, 85821024, 25038675,
     22784158, 113802077, 74863522, 21345165, 63785902, 128659265, 32311333, 10651415, 95697009, 70286832,
     120175812, 34843694, 120324102, 94643930, 14196000, 6843415, 50848679, 99887132, 11979006, 52488491,
     62258516, 65046972, 89010591, 18899532, 94876609, 18878536, 7745073, 123662832, 15172292, 20292869,
     84847549, 16070714, 112062593, 54231903, 81538965, 119732592, 12604723, 37757024, 10984124, 77404969,
     77928258, 13377506, 29112449, 114539834, 100345406, 120748150, 40551222, 113437119, 110855663, 54084476,
     121077734, 23098769, 71277905, 60747988, 94310096, 35813284, 102551255, 45327526, 84110386, 23431940,
     86811426, 108517058, 54181243, 35016506, 119831244, 120183858, 23783691, 122956279, 21722046, 110731480,
     97225389, 11498763, 28376536, 85535801, 69809473, 109616891, 120992413, 102853214, 47993777, 90695689,
     98732207, 61182026, 116644194, 120940840, 88402968, 112039914, 12186306, 44562133, 69303523, 56953128,
     106977233, 105859573, 133918274, 40571948, 61560259, 108565425, 7551299, 18794020, 46861088, 23535986,
     67041553, 30357420, 124742311, 31025406, 8748363, 16864627, 122917855, 102629721, 59052396, 58278353,
     13358972, 48414893, 100880292, 30157499, 16251011, 43266484, 17982510, 26753798, 31791302, 82803823,
     73449327, 42206202, 88626432, 66649906, 115476888, 46099915, 79153161, 130751863, 85562384, 114962074,
     64584741, 120983808, 67686611, 132336148, 88981762, 117833878, 36231396, 103842463, 39727359, 2446230,
     83614801, 91855545, 83448514, 123056040, 24185497, 36451952, 26267785, 67173602, 73609547, 95177880,
     111835845, 14783758, 41846765, 59017318, 23353201, 14721237, 6515869, 61111945, 71157574, 131893347,
     70927999, 75359453, 82230366, 75538016, 73358834, 98961006, 88443238, 50437367, 116787069, 56348678,
     42614047, 81632594, 106842947, 45350872, 30432411, 134017207, 44408750, 133116014, 66355049, 19439088,
     69744024, 96895670, 99010215, 113372818, 3496660, 130902672, 99108225, 64670990, 108196784, 18764345,
     187687, 11280669, 75429209, 114063350, 2513517, 114403199, 18564828, 102678265, 116929061, 14682058,
     7376828, 43102170, 121789191, 41853346, 89589051, 26010586, 102800839, 8416894, 90627302, 6431435,
     101788196, 30837041, 98242428, 23802018, 120106011, 105333812, 48297615, 128236973, 51380373, 132400907,
     87164500, 127711434, 71157435, 83161638, 91069765, 132134558, 49413501, 120256442, 56200327, 28159127,
     52631707, 96599474, 5319695, 80039005, 98897726, 29926376, 76364844, 986860, 118909961, 59850860,
     99040186, 1445765, 55687490, 20597897, 104078586, 27000187, 8510792, 77699677, 85379392, 17356412,
     124982372, 122329869, 119670099, 105731797, 42467590, 100716527, 37657242, 118518033, 39575187, 104290594,
     119004280, 60720709, 45936143, 70284160, 55478822, 65922607, 44250470, 108577628, 35732250, 69308228,
     116782650, 40850708, 59547955, 106214473, 71701109, 44571273, 53866660, 90012816, 45008651, 124798683,
     54169229, 133139121, 120109538, 101431126, 37623601, 124641999, 93513293, 1915592, 28730165, 112840156,
     122032394, 95808198, 62669712, 101029236, 40101089, 54112154, 57521764, 99232033, 99288537, 111064224,
     114945211, 124627286, 109064730, 91594799, 17422783, 123399691, 129829625, 24010120, 64065239, 25549852,
     127655088, 133270579, 22926066, 83823409, 126287310, 124182675, 25899123, 10459549, 116687652, 125057656,
     36330174, 67459019, 112870483, 67946862, 21986927, 78819556, 114723681, 24824542, 88766854, 65089766,
     16293877, 64593943, 125743382, 33301615, 58253567, 130004396, 24654776, 15599861, 113235373, 126012675,
     7301244, 69240670, 5131590, 94356142, 98951055, 133493484, 12062302, 105968365, 100181648, 96997420,
     12679188, 118521706, 126119870, 79360342, 18433731, 19749283, 75557044, 28167349, 86716543, 48197775,
     49151489, 13404428, 12858357, 50555339, 65537407, 16859610, 45050625, 76968591, 119579436, 70098176,
     27268387, 81501569, 30035099, 102473927, 80153826, 76516522, 59591327, 80939606, 38517754, 12810871,
     18836331, 56152510, 112717736, 133162471, 12824289, 100537336, 121328180, 25298454, 126224097, 96270809,
     17482161, 23881663, 124102671, 92321518, 35663025, 36993819, 106363487, 90781535, 43575357, 22702164,
     59806657, 132482947, 95360719, 45101483, 73315006, 13427258, 101278948, 12125637, 53191599, 1545940,
     8362586, 25314974, 46098534, 58411925, 118733702, 33316710, 107686737, 44412029, 124310074, 57376626,
     79079926, 16630541, 44051679, 8792878, 64654607, 81607746, 66194893, 39854314, 32884892, 51488028,
     116939525, 95904925, 7928335, 46287551, 44502454, 22685373, 131284176, 12051770, 75208084, 37055243,
     126678261, 61498558, 834282, 106280055, 108937306, 83263955, 83956392, 21433669, 114944817, 18956711,
     98598031, 74867812, 134199348, 76149636, 45331491, 91283906, 99857292, 60957797, 113362846, 116764111,
     93050949, 9074054, 106202073, 52286062, 109946151, 130905090, 36478344, 62843160, 38014880, 3911345,
     54287945, 115247756, 3190950, 108583028, 121473762, 61153793, 108859935, 14937488, 17693265, 108287910,
     109872069, 40343225, 44232680, 39973495, 81445033, 20877428, 65659011, 107443668, 59684704, 928457,
     81740139, 43572696, 121785317, 20833680, 55580118, 108381231, 3578382, 40092504, 114270383, 23944671,
     127761947, 77527138, 108337437, 108935985, 21028242, 10503342, 56529681, 116045527, 101587034, 68709575,
     115911912, 60776691, 116750994, 109390944, 123968408, 71699147, 86115941, 104506400, 18611190, 121780436,
     56392631, 110245865, 128781334, 45577727, 17747043, 92862170, 125218310, 75377659, 48261759, 131932590,
     79306462, 22618594, 109179756, 11063740, 12471393, 32521341, 15080677, 27141979, 64205432, 132846728,
     121376312, 96315767, 130228208, 113453035, 87819051, 126521987, 25700286, 3719002, 106491240, 115034168,
     50495399, 44266513, 35475154, 47653394, 79176555, 33913987, 59448429, 121950211, 69684655, 100601074,
     130250985, 127367530, 5150905, 41812917, 117246018, 59830828, 58182074, 122409162, 113512632, 29907863,
     117584836, 101597064, 98898959, 99988121, 63586597, 1993105, 70026504, 110030130, 80004310, 97940056,
     53085101, 132995166, 95769910, 107379904, 114722878, 108926712, 45224199, 28772606, 128111444, 130303129,
     75527096, 46827157, 39411041, 107483766, 21842482, 23764873, 97487579, 96169379, 37726927, 26803819,
     108566640, 130213860, 127097644, 15941984, 47311477, 98787202, 50731939, 20716321, 40506890, 108927076,
     34314951, 95392807, 134038206, 83600312, 111093500, 22507530, 116109527, 54456225, 3716878, 89530506,
     127827829, 121655572, 110577941, 10422825, 110497427, 24939095, 124368054, 52389132, 55259675, 10512395,
     10317559, 90811519, 76429808, 33549976, 71899430, 9045829, 28981770, 43488489, 99642442, 60760371,
     132228969, 74879098, 96136384, 81575752, 106588012, 13171090, 103714987, 22756055, 108784264, 120279427,
     21420673, 102801229, 81281609, 78965697, 81647016, 6489420, 117310665, 128703232, 58774082, 104174045,
     34919548, 28696304, 72024144, 8170948, 66249933, 9833692, 2258509, 87080946, 6546619, 79755567,
     25247213, 22996566, 66111847, 101290257, 88388199, 26746464, 69925182, 39044304, 77159629, 99406226,
     133143926, 76223380, 11763284, 20178766, 50023130, 113534893, 73197918, 108408182, 106119622, 110252,
     118610032, 132501129, 83247191, 44883205, 87989030, 41580923, 120037889, 73356914, 106298988, 30357873,
     77949736, 40774335, 1634786, 77031080, 55379402, 47518666, 9514145, 44120228, 129248655, 37575221,
     110948952, 102881924, 46435640, 110153275, 13481839, 40318052, 75710393, 20010602, 47259159, 5147715,
     97075056, 1945966, 112380097, 86155962, 80125016, 122018041, 109832806, 53751210, 1137428, 57978162,
     31334288, 110174534, 57801111, 76540864, 62414533, 39446745, 109084035, 566571, 23555841, 92609275,
     76892286, 60976025, 72199273, 9066108, 86958350, 104216118, 1837673, 89770116, 5869411, 107052659,
     12199414, 17094478, 52800495, 51494680, 80228850, 23522456, 98516726, 29512006, 87363388, 73550951,
     14430016, 4001405, 116209299, 5488437, 52949966, 54408981, 109569801, 37981377, 22972632, 113044629,
     51041890, 3529984, 89984293, 42794922, 84568963, 56366908, 69630882, 26976561, 123901559, 68972632,
     108925574, 47818033, 79973983, 33025802, 90954691, 4328139, 55727099, 66095061, 68840518, 130755109,
     84591801, 6401313, 112395008, 111160061, 26840588, 45405032, 61434687, 97702223, 24701531, 76223261,
     26467754, 28502519, 4788861, 26847500, 15996325, 39414672, 101649847, 43425224, 44285310, 98368283,
     40902933, 106609155, 19311767, 24226080, 77360653, 96713065, 55711870, 37005065, 7417520, 126868735,
     51349906, 107065180, 108395409, 14832584, 101572309, 76349774, 130827276, 106389326, 115088439, 123195122,
     66798893, 21784489, 106350918, 51001808, 105413112, 29792878, 55032702, 102237157, 51962264, 17278805,
     75174678, 84803454, 59399626, 118601771, 83609376, 92441136, 109222710, 48673442, 123341989, 6174861,
     86345811, 82790127, 70438522, 30563925, 28967502, 68855554, 53630289, 65261419, 30097846, 76741182,
     97824167, 10501372, 72516631, 14903409, 20573544, 118073149, 22175529, 40712565, 3781419, 42834103,
     15272599, 17609819, 83103368, 129296063, 85582958, 133651652, 70902636, 83090236, 105956238, 24119141,
     73348469, 55849472, 34415176, 1771722, 102750650, 105843785, 49181731, 18483599, 5971137, 69132296,
     29013370, 96006034, 59693116, 89531453, 82290984, 36246115, 104624250, 55936204, 115622469, 125616918,
     103923256, 8049146, 100859075, 33443722, 79100512, 35736447, 25930823, 45261786, 89408075, 14096667,
     93198186, 112656353, 35983014, 66045375, 49808584, 111555456, 39436964, 7802481, 133633963, 35549276,
     93565451, 14462569, 48207285, 38207517, 26140302, 123032273, 45707031, 31219136, 32370783, 131437884,
     111505445, 26744110, 25235013, 91945950, 50795078, 16331496, 71797420, 132061279, 33747361, 89227799,
     22667442, 130220544, 129034369, 46484926, 121288847, 52435319, 3605639, 117748857, 71615796, 89798015,
     5869602, 71759896, 58213243, 91928253, 14699597, 34083250, 107981308, 95187280, 26976877, 68609977,
     40346387, 98847613, 11518297, 120637074, 129952225, 14036513, 67125522, 130916823, 56665537, 90475961,
     74202559, 47368366, 24087791, 19784117, 107039287, 16362400, 38535876, 98201614, 113672544, 107135482,
     99210437, 101845178, 39553221, 23349773, 65235007, 120729463, 39522950, 33164717, 126191094, 123002662,
     113947488, 123790633, 72342056, 77881706, 92575023, 32285516, 10426969, 64102489, 107472570, 25868846,
     48089775, 57240995, 36046127, 124947941, 43984366, 124608414, 119346706, 133694027, 13864208, 106249614,
     132406547, 18851824, 62220647, 109671728, 84206750, 47142708, 68000701, 17404385, 8415220, 125352855,
     102775189, 61861888, 53827875, 103056300, 64708694, 42801104, 110263418, 81831488, 41818692, 64977319,
     18919317, 38038353, 6123581, 55119374, 92605909, 107371119, 8903340, 62221509, 79651026, 23825153,
     9145876, 102392314, 15154014, 116621215, 52867572, 31039785, 39175110, 83989665, 14393608, 57087267,
     126415757, 84147364, 127033323, 78312644, 129206891, 39635063, 131590165, 72637953, 122075154, 4178126,
     75971804, 6581820, 54259740, 132364282, 99565844, 55351327, 70298987, 49362324, 30511888, 119069076,
     104114284, 32936898, 21884848, 87704387, 87481254, 14548169, 127475489, 15658762, 71846823, 81235763,
     19517289, 39722122, 48094880, 65148950, 68553452, 33045428, 57993075, 104341304, 20010790, 125010578,
     80286410, 80374732, 118113286, 25085767, 130417128, 45856466, 24344755, 102114516, 88356667, 116412493,
     2921103, 44928910, 20108428, 13804901, 68904624, 42212019, 81392432, 119660201, 33269500, 13715849,
     98612816, 99994443, 119729107, 75419695, 130200838, 123951477, 13948821, 98812357, 91716184, 64091336,
     70194563, 82573985, 93694664, 123790207, 125280556, 66234216, 38447916, 44982360, 118287722, 82711229,
     12161451, 28021295, 5547080, 85079490, 124162977, 54221989, 34752908, 68747811, 95381582, 45642239,
     29496419, 133025527, 78958890, 121343854, 45672322, 34944205, 97039272, 105056865, 99966711, 94070509,
     121109405, 8911471, 107826813, 111251913, 60419497, 107236443, 17087681, 5132986, 90112595, 12999280,
     58955090, 125419795, 95134089, 37716613, 132633041, 102385925, 44932493, 34121680, 59549007, 2400642,
     46072590, 98328013, 43123184, 85648053, 32548082, 109472870, 47361026, 98076320, 48590993, 131157974,
     48107067, 122117591, 127227223, 96381294, 50358096, 27023899, 2337967, 52855641, 129499564, 84352110,
     77984369, 72268885, 41366043, 53754109, 106537721, 80912542, 2954141, 73161242, 114703584, 118679453,
     15947464, 42178588, 3247816, 58260432, 19243529, 12445337, 112100617, 16782076, 6809074, 88102288,
     122646060, 74669069, 39168056, 129362101, 26439884, 101175937, 87917898, 48514585, 32537508, 133714971,
     75864782, 11120992, 102528988, 29932247, 89615450, 58107698, 42598474, 86470519, 85003848, 93434331,
     84397251, 38473785, 2783186, 8718996, 61852794, 36913894, 84922935, 126366793, 51214905, 28697363,
     21532281, 97345292, 122492025, 60787898, 1458408, 21185246, 116135257, 352651, 22374450, 76754640,
     133061715, 91237084, 122230224, 6667149, 12325287, 49635015, 103030976, 7287898, 89632352, 30122724,
     116050122, 30356178, 66624480, 34274983, 41888590, 75940363, 106137140, 50270036, 98839153, 87866290,
     71992083, 42077598, 132258503, 87845104, 103277158, 93772332, 66725110, 132525243, 124260018, 82775305,
     67889977, 111092721, 113160141, 104099579, 6704553, 32719286, 17436064, 99463160, 28580432, 129251963,
     31153161, 13182026, 18848234, 14165845, 5574515, 80593914, 75110857, 12286174, 79184540, 112405753,
     97513174, 107867723, 82524506, 58209083, 60821670, 87297772, 60386151, 53079385, 1887542, 98785321,
     82731724, 102335850, 85350527, 70339194, 83984736, 118381364, 129076951, 42785707, 94392106, 70078635,
     28284079, 17009859, 81955427, 40196790, 74346452, 39446702, 90302499, 53937413, 79836234, 70022255,
     101661398, 6750096, 61475469, 76591409, 76082767, 33202812, 124238573, 52701387, 35421473, 74719012,
     88917086, 41278430, 99045368, 16236560, 110215911, 42144473, 76948452, 94578992, 130753369, 34318051,
     129242013, 93432889, 68951052, 35863563, 60695015, 59951910, 13858311, 122964517, 78807854, 109552769,
     41747689, 43310937, 92341702, 10232264, 96128927, 58481509, 116235975, 45753177, 99737187, 915743,
     108635609, 14553541, 112890333, 129551472, 133663589, 95958105, 44168257, 111766804, 79033707, 14154105,
     74791015, 26360657, 76621587, 90346379, 89627339, 673054, 125752012, 124877741, 2455045, 2426684,
     41624412, 100493688, 62088190, 14786764, 69367094, 89381739, 121719323, 2680463, 67060850, 99423888,
     31744999, 36821941, 115060922, 122132485, 69082332, 40450857, 105267018, 123724117, 35447552, 26951303,
     126830614, 99893325, 53872668, 80988718, 59975680, 121824224, 63989405, 41179354, 44423877, 1999275,
     101814891, 115244980, 77340150, 104124886, 80999098, 126330435, 80658557, 103940152, 39514787, 14325344,
     45865212, 93076170, 12236550, 20611560, 51673427, 61252075, 35199984, 109230958, 46798189, 37359576,
     83850159, 123042725, 91938908, 127166124, 100460949, 102841080, 29729892, 95243395, 24570473, 73977458,
     129945327, 60980395, 62609110, 34770413, 63854902, 12614545, 11144634, 124732366, 92217151, 133863325,
     23149118, 74193153, 7008478, 104093947, 33685631, 48341108, 129674659, 115699485, 44618997, 48314873,
     7653639, 51525232, 89965470, 45796809, 23356831, 130348679, 38215959, 118561914, 63904085, 5947958,
     72557351, 67684418, 40646510, 42845733, 124120438, 36256632, 101715322, 83254908, 84128606, 42929773,
     10080596, 132252761, 109793548, 46847878, 111288811, 2659126, 108499267, 60242552, 111542637, 83528978,
     23326153, 48169173, 120655069, 82614306, 39538130, 93228204, 35491157, 65917470, 245303, 59793512,
     21174694, 32744645, 46651920, 129752974, 31315202, 15235878, 117324445, 86007893, 6397558, 51007353,
     59750468, 106306605, 50849710, 86781544, 116064698, 80352077, 112130914, 4925567, 43543789, 3419963,
     91024399, 1702729, 61634553, 129832332, 33560499, 28481280, 93494577, 23631930, 62439896, 13783231,
     93355778, 103070244, 99045639, 53719846, 75426072, 7482741, 35478125, 14051777, 18412229, 7837426,
     1408063, 34578000, 56788582, 70405435, 88662672, 103955374, 110954625, 77983095, 38238195, 107646311,
     9158625, 44763545, 64641727, 78433513, 45429087, 35633907, 44880635, 31061555, 6346054, 99291568,
     69784051, 31954634, 59352033, 70239226, 94947708, 2394942, 91036591, 109755172, 51354282, 42774269,
     5722575, 70374127, 130401733, 117889561, 27240095, 96038109, 99191801, 15326183, 75352301, 32730207,
     4042364, 110094398, 98405819, 72319039, 130519561, 42004289, 20091431, 107145958, 96012245, 32344299,
     76779050, 66094532, 72567966, 66288684, 58184912, 24117459, 59955718, 35226325, 23080950, 5149058,
     48411618, 127995711, 90659546, 39664201, 113963221, 113821293, 98801670, 45851975, 84054070, 36795435,
     30737463, 52487813, 734521, 7961437, 115196620, 118526362, 102859965, 91284002, 127075487, 13456445,
     18220929, 133778483, 130717988, 80339518, 44305816, 120062860, 75670824, 22148870, 2599738, 5580601,
     106627741, 71644339, 125488552, 21827678, 127003802, 77759507, 20793531, 10542397, 18730007, 20279161,
     73518709, 25056208, 54686838, 52202795, 2513651, 49559477, 38683307, 46208690, 104515422, 75632522,
     102575037, 2145030, 31842706, 78945472, 123391652, 1341579, 49335957, 104048838, 103297181, 49304021,
     45949916, 11580369, 132380021, 77131884, 90759746, 91983781, 49788972, 49023932, 8685840, 54953405,
     25195777, 48438608, 127122885, 128288973, 77196267, 33865220, 107349361, 20174679, 28561552, 112221879,
     70379718, 24897467, 80569340, 18109970, 126029171, 110441421, 67857825, 105201818, 124005682, 14972027,
     42775318, 78100051, 78212947, 75106249, 83923380, 83304318, 12893376, 82739992, 22212447, 48006675,
     34281041, 62809043, 35201113, 59948744, 24819938, 53010360, 56182462, 48370308, 13073164, 42576189,
     20094364, 34822108, 114842768, 106172419, 24068794, 45117956, 60078469, 103432648, 10859114, 50219907,
     106918392, 50173748, 35980278, 116681299, 88915491, 47220808, 109969169, 19924167, 55569244, 129763134,
     27773623, 26806773, 21167356, 78138598, 61704313, 133226538, 79806238, 57298913, 88434191, 106817315,
     78735002, 94390996, 32779745, 102724558, 211205, 49066514, 18318100, 4139503, 59201751, 54917229,
     130044995, 123237555, 76183468, 108538284, 131503161, 12713539, 112888063, 7008324, 133678294, 52121047,
     38842058, 83866585, 92593163, 26752928, 57831073, 412921, 116904360, 95367058, 82319138, 30773379,
     54218435, 82476530, 126597388, 65096333, 112899834, 126648724, 66263298, 80518638, 57066561, 131901959,
     54126351, 124745597, 54364318, 8193369, 41603598, 23629220, 22460846, 115777033, 111450387, 43005052,
     16355488, 67642500, 83603988, 60300880, 21362036, 77205938, 116480644, 52339413, 30576009, 96377540,
     16876762, 34291665, 2386145, 128024137, 121430935, 61422071, 105853356, 103425410, 42091970, 64406896,
     116029654, 46724490, 68186025, 101449489, 29400060, 41912258, 76179771, 111873666, 3834191, 65924738,
     93374788, 18443254, 36406475, 27785146, 50171142, 2084381, 115799938, 38508310, 83668838, 57932091,
     128751713, 98361082, 30415929, 122179867, 897345, 29618661, 114352139, 106852498, 81754567, 51935237,
     17860500, 115456239, 34024038, 96973959, 127117577, 85299838, 77475857, 107628920, 74320071, 26781952,
     103463575, 16823306, 120968720, 132581388, 52370666, 75778671, 110662338, 88830057, 116646269, 127861222,
     128187432, 99133907, 64478654, 48476698, 119807644, 117327722, 110503129, 90408177, 63031272, 82242037,
     96356067, 107341201, 18124838, 4131111, 99922113, 80431343, 53180474, 88237770, 111120190, 56841285,
     46301280, 41562180, 107045036, 19126695, 38939841, 128461090, 66938767, 34932943, 53308662, 95227084,
     133732017, 80333108, 32360731, 106698845, 113015973, 62000748, 108432102, 124949351, 127069801, 27118099,
     92979175, 24536524, 66650902, 102336063, 126394467, 61202475, 5068147, 98896164, 121834399, 111615979,
     99597136, 55035187, 27178211, 70685488, 39254268, 92635546, 115952362, 57087847, 13924567, 41487591,
     36278264, 21888627, 20223298, 101211214, 28093586, 41248929, 17499513, 21989656, 46587440, 28070473,
     117188535, 77435060, 79587589, 107260469, 21365358, 8051694, 14059135, 16977809, 133947154, 125440939,
     33874391, 77145046, 38468008, 38059029, 24927419, 8198149, 37450714, 76892720, 126783855, 112173542,
     49807485, 14475570, 55520603, 34971999, 44873799, 95757512, 79963314, 75307910, 70413391, 83967180,
     34985197, 114166834, 14451377, 128962519, 74451917, 125836639, 74811266, 108587046, 7593701, 3983552,
     45832593, 97791863, 56928750, 81525232, 64948837, 106663153, 42629929, 119456616, 89846598, 78834456,
     107544337, 30721880, 16015182, 57076299, 56620924, 127452088, 89606185, 11223058, 79536540, 132363680,
     117093633, 33567486, 116833389, 103121195, 73215160, 46148953, 119171261, 97230524, 108251994, 133465816,
     20167119, 5413312, 1242123, 16918391, 51871577, 110581014, 48995732, 108812233, 3782739, 50006380,
     108773332, 44948245, 69303533, 79520689, 130993719, 123401550, 111869466, 113234580, 108424838, 79509408,
     53555253, 72353076, 126624235, 122529375, 95734767, 14914017, 14097841, 82921950, 74332658, 25911160,
     28351906, 43320135, 86230059, 74482488, 54014509, 19369349, 5507551, 117752558, 120727207, 11141930,
     123412159, 4385738, 85459518, 47573929, 27891934, 118151189, 55259132, 76518762, 93234264, 86661424,
     15550369, 55241450, 27808085, 45418196, 12149784, 13836138, 125360351, 97388718, 101323441, 105156632,
     18445053, 36685267, 31627987, 124038856, 88217276, 98692666, 130688457, 22971535, 28908321, 122532722,
     113849390, 51631933, 58417040, 26706504, 115087440, 27285104, 1530960, 128890819, 70101423, 37651634,
     56191475, 95929487, 105666743, 28882179, 129004801, 68398159, 13655656, 108988600, 101098291, 82675003,
     48715374, 114193301, 118321280, 85181251, 115951125, 44690732, 133868247, 33719357, 68361939, 31335887,
     66945431, 77742647, 28459992, 75986762, 6865974, 75990095, 121528384, 88721775, 14519509, 35623798,
     58009372, 86005077, 13616577, 104951490, 5025612, 13411022, 44000236, 44376390, 15369105, 83418929,
     37985984, 129865118, 133250364, 13131580, 32283730, 117400068, 105747703, 40669796, 105888686, 76578555,
     8710876, 12981547, 52554813, 64448550, 20022731, 121660130, 43575701, 30196982, 17508861, 31945717,
     18510895, 5313942, 95884943, 76541401, 7272898, 62769928, 63971186, 73431707, 74057386, 31558431,
     56950671, 116630896, 33219553, 29189099, 83642472, 109476369, 13059818, 44618597, 23444758, 96110655,
     39643119, 13691918, 60287628, 60494365, 27094967, 126400509, 87151814, 63886914, 35146053, 105472817,
     64289274, 25583668, 108031386, 60760858, 89802516, 21440433, 80893470, 28721629, 111712819, 76502149,
     54222066, 47079164, 57714716, 35185043, 52424557, 22434943, 17566963, 97308218, 80069089, 72701925,
     65791397, 14753169, 107105800, 31462566, 81680560, 121330955, 46342075, 91566390, 115330600, 75944507,
     37114213, 993390, 41013764, 59869748, 116687676, 130070798, 131522651, 119124789, 28417627, 53079140,
     30164432, 38835846, 77754526, 42266110, 3276968, 48362220, 109394869, 4691428, 57235465, 124479955,
     98130231, 100910806, 3394631, 76799194, 106645747, 83892269, 73604946, 106158190, 2943476, 100549477,
     6475835, 7163930, 54628054, 128227556, 83646255, 40367647, 60805878, 44508336, 86400724, 3524752,
     120848748, 74598693, 51268442, 14249062, 56472014, 36701402, 106722108, 98844924, 5860157, 107393171,
     45503110, 5966159, 8386550, 46847865, 87729245, 107960395, 90497959, 102663898, 89121738, 15904681,
     83281405, 92603564, 100127493, 116951842, 1868035, 117697240, 84584472, 70566329, 84610224, 13186768,
     111974038, 76884729, 101250222, 72566283, 4619517, 28488132, 79465707, 77975074, 55280555, 111127104,
     37529851, 13517792, 14535859, 24250030, 16319321, 115811204, 20869869, 74442752, 32092347, 31051863,
     64836875, 123230954, 81166699, 122654234, 34885421, 53705597, 27394553, 6857728, 70068690, 71129525,
     65502491, 114212260, 10087667, 117001512, 30670276, 17457769, 52857275, 92754019, 125388290, 88494154,
     61503458, 8906491, 33050902, 30640048, 117274117, 102701251, 133974494, 15896465, 20861476, 58250891,
     117087462, 90274488, 65883657, 56420307, 34404000, 81679687, 109014961, 25764348, 73739193, 4957200,
     74145103, 133567271, 93595042, 89144887, 52410714, 20826772, 94024434, 66199045, 99534366, 76889797,
     108554701, 18634839, 6472827, 117686234, 41166963, 51850941, 78248278, 64399291, 89416314, 61226072,
     80046362, 99623774, 107769730, 56486482, 44572244, 103682400, 85896026, 116658213, 71533249, 31049398,
     113064583, 8611208, 40114431, 115528670, 71762540, 67320951, 31856789, 45635241, 124113091, 110786560,
     129244743, 97041688, 40764032, 32203361, 115789380, 68616666, 58296480, 36556957, 39191210, 105764544,
     51082823, 43253897, 99759406, 42945247, 132050025, 112855518, 111449375, 27874798, 113167977, 12813079,
     40705876, 40169037, 26185639, 13633112, 32548133, 54841447, 126549783, 71662526, 21990993, 42373886,
     28565811, 56152050, 106523268, 62387557, 116372180, 113807565, 32854392, 36852954, 70163899, 125931705,
     48928981, 52674971, 115852149, 8881752, 78556039, 127669032, 63953374, 59055982, 91220500, 12984381,
     132190761, 22365538, 85732413, 16173179, 108467891, 70342221, 108911281, 35789666, 35560974, 1157479,
     52378421, 52752505, 26692761, 3330206, 81050874, 21855472, 105591699, 8110709, 55826594, 57118249,
     44712271, 120137258, 57305432, 107954107, 96845520, 50978289, 5452944, 35832797, 124078632, 63546342,
     88743526, 127796448, 76848209, 79247625, 1903569, 121773413, 11570868, 4755738, 20264526, 129037823,
     82731508, 132367416, 75056567, 31754382, 22036746, 120742988, 115346256, 97314758, 44586062, 57072215,
     18755786, 67866335, 39174640, 125317683, 100778410, 123842033, 65291627, 33120427, 85612052, 10023153,
     36158365, 19739356, 83248675, 25983965, 33075475, 18052756, 1777856, 120124360, 96241702, 3722562,
     59296744, 37060645, 40478158, 97752932, 70611385, 2728875, 51138963, 62647599, 108391245, 82669519,
     130242176, 103463276, 87529963, 22541781, 5164537, 22432796, 87757980, 115472420, 1238161, 70013081,
     53614997, 47554466, 12297222, 131343164, 115895300, 42064479, 3504367, 127803414, 90989453, 117662023,
     62031290, 96693722, 68333859, 31160269, 34750268, 132508758, 50603599, 7933272, 58103077, 115384019,
     60429078, 128689079, 65553112, 22241365, 112061136, 29013208, 84673934, 14763724, 115467101, 72789211,
     69218619, 12712541, 70274354, 29206997, 84389488, 103297932, 95562459, 113968728, 98602112, 113847871,
     75044947, 123927001, 53666465, 43179946, 37215930, 30995821, 98985259, 80175127, 7968920, 42767845,
     128469249, 90490292, 132851197, 37452317, 120362820, 11626458, 119081034, 94816704, 128485627, 107410394,
     80659821, 78570115, 112169499, 107681769, 24895452, 14420338, 61609757, 104253168, 3075889, 64160580,
     47564056, 33574967, 58379505, 121354953, 23264874, 4989475, 95708087, 70714915, 23674603, 114315227,
     21535556, 57745081, 100590467, 95696602, 122140663, 94542755, 124183358, 103535331, 116345732, 98249450,
     26673389, 40361798, 81229296, 127546393, 71397214, 77675884, 6872110, 7336229, 30870874, 3189450,
     76816355, 103181066, 115272131, 89740279, 101335349, 49602075, 109016525, 34594009, 61043718, 108959630,
     127998689, 97289803, 82057811, 37870794, 37449413, 70409953, 44427393, 133436516, 50252840, 131485780,
     17545413, 8954799, 86330455, 59186245, 72036885, 15252276, 110537529, 98371280, 13070252, 132505035,
     20607972, 22071607, 45360075, 55679691, 29113808, 72347612, 33706348, 97230666, 47249159, 84091896,
     47504676, 34080272, 68134337, 117379186, 99279567, 1459413, 69755249, 107950810, 119618064, 125038051,
     8477647, 126372600, 88085849, 56440998, 88755324, 133403836, 125106337, 14912901, 77271779, 110873491,
     95391491, 56441261, 61666533, 106064881, 9944422, 100284246, 13378781, 96906460, 61155183, 112232376,
     84217838, 19678150, 51255030, 98628733, 24778330, 54816709, 116482659, 75345824, 128590345, 4560231,
     46198791, 57141316, 37368850, 37941904, 18939745, 11233775, 130705030, 85179262, 76052607, 59525194,
     73293132, 123365892, 42087007, 122662685, 107449525, 79919862, 25301357, 75199260, 89382946, 106827015,
     89931798, 88471395, 125607207, 5915893, 111848219, 29530106, 59658944, 99019618, 97091475, 84454728,
     68053413, 54808804, 18313786, 74333269, 72459958, 4571667, 96552565, 26411168, 124461317, 38083728,
     74601152, 27651536, 35593594, 7403340, 68915034, 49184379, 93296382, 98051048, 38183440, 51550213,
     17637817, 4937759, 25892732, 83833201, 40327734, 111750174, 27785803, 60153447, 39510415, 431160,
     5659317, 57472701, 58564311, 73884041, 92792072, 127050918, 1387587, 92983443, 22348949, 90728617,
     13858193, 49261403, 56242442, 30940015, 117359878, 102748219, 36077086, 103235742, 53898931, 67163647,
     47532934, 75887430, 20828570, 97155906, 12248960, 43966324, 28854695, 89182942, 5631206, 130469309,
     52795980, 117409131, 101971955, 50424836, 37374653, 44212090, 132765825, 26209890, 67658634, 96000680,
     101518978, 31741045, 76234945, 78651745, 76201575, 4898694, 104902767, 65929380, 105286117, 33143773,
     27560040, 37711657, 21566944, 116608240, 24718662, 60555923, 31075462, 5861864, 10520228, 133557162,
     31100955, 53137302, 53331725, 56740455, 84577016, 100757971, 3702798, 19535487, 82495827, 38681000,
     95306371, 108399672, 119656100, 41406218, 88022110, 5974381, 76150488, 27385448, 40005784, 65255622,
     51300903, 15147434, 82305412, 90425565, 107750560, 92536092, 46804795, 11982773, 89369557, 61445558,
     48822031, 30047598, 83083504, 78080057, 5945573, 106660253, 13573631, 48072550, 88436287, 61883939,
     115082160, 25616697, 41642616, 38814063, 99398830, 13302916, 103620934, 394250, 9135812, 115115207,
     90006677, 80896273, 58406388, 116972690, 26926899, 66477674, 27433812, 65595804, 110263112, 74889678,
     90870765, 97801239, 54403715, 69687830, 63455106, 126418881, 21609451, 20713757, 132766628, 586143,
     70445313, 61042431, 9927255, 115374991, 55405116, 84024876, 117834394, 93334959, 42959515, 127992908,
     98333042, 24050476, 10747926, 76023334, 103038330, 129441052, 82187499, 45664922, 61119981, 83105141,
     25888590, 95721590, 65670223, 90933414, 106760851, 56355128, 6847967, 21157504, 33607391, 131411731,
     39160531, 72239541, 39516286, 113324989, 89669597, 58476081, 124755585, 104561861, 79197453, 259350,
     88058826, 130188895, 66179052, 9232654, 63320708, 39083746, 96786609, 62665962, 91817943, 74387577,
     49213650, 125658001, 64401496, 83123986, 9383008, 87507973, 41369549, 28260471, 101002007, 123637471,
     131688879, 56168850, 62192265, 47208895, 59387427, 86685432, 19425380, 104457561, 92539720, 64652826,
     119254725, 48468586, 8638885, 34508362, 86946382, 75890133, 28077489, 78777722, 18179327, 131824489,
     89283740, 70538377, 38393992, 88026289, 10883383, 23785346, 97928507, 569739, 117126307, 74977554,
     78436456, 97960099, 102990982, 90380843, 92735102, 120277523, 72193930, 127539249, 61180958, 108243450,
     74533728, 64806170, 37290026, 24333350, 696357, 110817533, 86148750, 119760789, 120880088, 58358002,
     47239244, 40504842, 58682416, 6405074, 94154211, 122357071, 4397452, 6223504, 33374353, 56805046,
     103406395, 129932082, 87500017, 12295113, 6262273, 129996825, 50387856, 63055666, 80119389, 28169453,
     15710611, 35889750, 126233024, 2454257, 23330711, 63638066, 81316550, 6330743, 8994035, 2543994,
     33751248, 127553412, 19536799, 58749778, 102280773, 132830383, 131460028, 21283617, 119712409, 109216634,
     29130630, 32096796, 85989586, 29381201, 121800779, 72416496, 88335859, 2403866, 8249924, 107591174,
     60272503, 65573773, 44547188, 20345035, 86703402, 9646814, 8283561, 117413324, 88449426, 80002756,
     6435034, 120402172, 7539764, 85504969, 30650796, 128175512, 115879907, 53899434, 103069347, 103286489,
     35451643, 105293759, 1297188, 66353128, 35064423, 107372123, 125244699, 13477906, 74578549, 20112746,
     10741624, 49697656, 97317076, 42734577, 84411860, 70118995, 113749003, 88074379, 131534879, 26929092,
     113671530, 71694465, 91074312, 82269393, 117759750, 107665632, 83311070, 105308016, 28373935, 75314631,
     69093147, 128875076, 40120129, 70281502, 33278736, 21193570, 24872347, 47474451, 9041588, 13582386,
     38288035, 55624845, 117667436, 56825923, 68255355, 34126551, 71118947, 20538289, 14881479, 49910273,
     128485972, 53453386, 16173783, 110023261, 129544053, 123455564, 25012185, 109418096, 6608210, 54825320,
     126281801, 75023883, 4164896, 75897067, 36499950, 124973355, 88496507, 100222343, 76866646, 131120900,
     98319947, 125888102, 42327694, 31667413, 100986928, 2271461, 7420760, 125798496, 4447777, 2923800,
     31333098, 106637398, 111042278, 43961812, 15040257, 84603710, 98659413, 109439094, 126499412, 87259057,
     130318431, 93866959, 12255786, 38215821, 34340938, 62632050, 7733277, 130818117, 102279067, 14311865,
     56818441, 31384622, 35545486, 36390691, 121022479, 103487493, 79321215, 80601148, 130997938, 97945382,
     91389574, 99610052, 14859654, 119892361, 18119152, 73072591, 15834483, 49701185, 48561570, 123587923,
     105815661, 35872964, 123162154, 49071454, 7244511, 8411001, 54851945, 39101304, 126394781, 133302438,
     107258713, 48628463, 37555902, 116462975, 120447664, 950888, 18498495, 65685590, 45024027, 29595401,
     27443915, 10162946, 56931446, 46603924, 71659611, 88735838, 9792396, 21711641, 23618691, 85541673,
     83010941, 31320268, 112755718, 74257496, 11917350, 38441459, 128377560, 94708526, 67217297, 102223071,
     103991742, 50858653, 7852622, 84032446, 47956752, 28887684, 61990547, 79521977, 75795282, 27083727,
     129231128, 62696334, 67822527, 13668867, 122621214, 59411354, 129891449, 126949843, 120007906, 26393920,
     47179470, 130825957, 116467998, 81579275, 42026975, 45823432, 96451123, 129070045, 93564218, 111459304,
     80831878, 83056380, 120808071, 117041660, 106641742, 3303292, 109181832, 120366689, 56910354, 100954617,
     118896861, 86854654, 97866252, 14327490, 42359749, 52216459, 56657697, 50191128, 32080140, 17813994,
     114201859, 119232823, 50110391, 125526732, 50356086, 127992814, 52050463, 94918326, 75070957, 118853174,
     37870555, 95362685, 110006188, 93188397, 89849364, 25419562, 106304564, 27860745, 9175809, 107365667,
     50556359, 112548579, 27849726, 24589835, 25950452, 6530004, 45236474, 108470432, 114441671, 128323089,
     50695689, 87318846, 8461264, 121602508, 113781714, 13923245, 105548656, 81213420, 73627808, 82981612,
     6234094, 48971624, 20512167, 22030338, 48005488, 61958753, 55733290, 45581517, 40271902, 125406654,
     103008425, 38808600, 129844425, 43252104, 57387577, 99165145, 22942263, 132991480, 60613079, 90948248,
     18514046, 88983957, 62273018, 18732877, 54925495, 72543921, 131833428, 84517198, 47293054, 42571067,
     16366215, 4030222, 124947267, 119231379, 94437093, 19445488, 93440892, 47965639, 43683354, 89255991,
     27311718, 16413682, 95617143, 123123091, 38858997, 48699734, 82567876, 6490668, 12593394, 93730788,
     58775596, 117151661, 85319076, 130890188, 73895880, 117317665, 85729021, 82086555, 30932845, 2214898,
     61063806, 63886217, 8803119, 31850758, 10206442, 27483894, 27791317, 122838950, 86931055, 129323978,
     106713407, 122234333, 80306993, 26559579, 47793364, 49857639, 981440, 39865815, 93253312, 37552261,
     114120953, 91041028, 1294268, 45507369, 82847972, 7969117, 46245237, 22114421, 55127276, 10507708,
     98416082, 89470839, 58193292, 123531708, 73762093, 120182568, 93035808, 19501891, 88587892, 61159525,
     63857876, 133697618, 72040964, 90022051, 86551175, 42166090, 1804858, 50294171, 3110079, 11052292,
     62478668, 65249339, 94939572, 929822, 127639701, 33218071, 70653296, 7822906, 90466927, 14607716,
     123606189, 50837699, 13354481, 54999296, 17104546, 114081573, 63972614, 77175956, 76128338, 122747860,
     40785806, 76847354, 51845503, 749795, 116712556, 115563411, 71308777, 4239296, 76924175, 29129287,
     124591145, 22295293, 79875017, 23817469, 62015449, 132042930, 23922257, 60749898, 25645240, 1482262,
     67822707, 102942415, 6081869, 124850258, 68324497, 63170719, 118219072, 65058224, 52132883, 35971915,
     112541879, 87794182, 100869217, 122430662, 109187389, 60937931, 45367771, 82552362, 81840391, 73012959,
     87623919, 84952545, 13337436, 102035682, 22838919, 77229438, 90178108, 87525309, 96760523, 88042252,
     5448795, 60066649, 65130009, 118138508, 64380873, 35880306, 56967319, 30249589, 102426278, 106602126,
     130284493, 6266530, 4200634, 98368332, 124770152, 126504736, 98837715, 43939155, 51305961, 65217078,
     31597077, 81355746, 78871702, 3098054, 71797923, 84230330, 127316351, 26801498, 130796684, 76087131,
     104520392, 44932757, 117838599, 26077327, 92868146, 20962054, 105418906, 39494646, 71610551, 72086852,
     94073349, 24387962, 58643860, 116858960, 123702609, 83525338, 122885864, 14210510, 133763411, 94028162,
     34394928, 51479674, 29129153, 8431444, 82748780, 125159158, 49610253, 110188157, 53246608, 20035724,
     103652687, 108309118, 90741740, 127226329, 114595005, 55186140, 108488582, 71833667, 65744664, 118752466,
     14016541, 35458344, 56663131, 47968250, 105945114, 114464972, 49265507, 120542334, 113077501, 103126447,
     53569206, 47741035, 109779392, 130236967, 101886620, 55228516, 90137872, 35052001, 949393, 27966354,
     124250942, 61415538, 49252347, 28833631, 12411099, 42512069, 1702642, 50359471, 115549639, 123777552,
     56169933, 27298043, 78716178, 57057792, 132163007, 33332804, 125495537, 87301148, 84536728, 119888843,
     98182024, 93424179, 86353098, 89507708, 56279862, 42713054, 15568521, 2261367, 27788800, 85231495,
     39989838, 10014376, 28730414, 40503855, 125051632, 11490481, 27518505, 21461243, 31597861, 77317872,
     93398987, 103885831, 130293415, 58320931, 85575271, 43670886, 39338043, 120749034, 109413334, 131465130,
     20982994, 32265727, 87111011, 69894810, 66318396, 936528, 100924250, 17635021, 65215416, 86057248,
     83394493, 8909634, 409526, 41291017, 113222802, 59496022, 97260812, 35927840, 26510786, 69103639,
     127014599, 72902025, 132842614, 18839688, 84334709, 113798337, 112199075, 92132142, 132847114, 45743858,
     40933668, 18236353, 24826016, 103862801, 43440864, 54147602, 129769992, 95053767, 39707925, 46988754,
     60523218, 64666380, 114234662, 55651180, 23820243, 79812492, 60921573, 28092637, 35441695, 102625076,
     56302348, 87553857, 128972133, 109074992, 58695913, 65836180, 8278624, 46002087, 119820743, 106252706,
     115080128, 65954712, 46034035, 84001390, 6573301, 43398085, 66360120, 48974693, 86012174, 84872785,
     58892597, 121214126, 9040850, 133962624, 12549075, 111611773, 100453986, 115302045, 71781421, 38020966,
     87191355, 117980953, 39680553, 83700313, 58568752, 113320288, 45812196, 118839987, 87907016, 86801706,
     61082494, 132924714, 14965889, 46513543, 91103799, 59981978, 130666217, 86722688, 55351808, 73336203,
     4419640, 53457517, 72702918, 47166912, 85576856, 871164, 47558310, 103932392, 120724443, 3083988,
     127598245, 79440498, 63128479, 126824067, 67633270, 82233620, 57131237, 29588168, 91871225, 96332734,
     7911916, 130084319, 40959363, 69104187, 107359760, 71998817, 26133771, 81210090, 72246788, 117510181,
     29186357, 91956098, 15405491, 67844116, 54344191, 15837053, 73717668, 7207344, 35213092, 42780113,
     45602162, 6850490, 60602736, 91998747, 97882520, 103713910, 20048774, 68234946, 78967168, 2436121,
     80234843, 87440037, 130717531, 107394434, 81266599, 81840796, 54560113, 33594213, 64716274, 36558656,
     82338715, 98586426, 71451533, 122904425, 90472187, 29939799, 39423550, 21762749, 33093039, 124208348,
     131293403, 26992791, 126371988, 65860041, 99239314, 32579155, 131743256, 32724951, 133328430, 102887452,
     36340394, 109748909, 46371030, 25287378, 123659161, 76699047, 96206465, 43747434, 20006054, 8433706,
     105804732, 51598329, 25989156, 102225841, 27587978, 111247939, 82376014, 81010884, 27997975, 112047000,
     51170855, 116329309, 21908952, 65246118, 92544683, 40456612, 82567987, 10677151, 121757606, 99836481,
     12814946, 102974985, 132355819, 95845663, 41302360, 29318367, 3897229, 7319243, 46875714, 11706377,
     127171957, 60420888, 38955268, 41849838, 66085280, 50565261, 36962475, 29866199, 90817378, 75082588,
     49879155, 71283484, 124109724, 81703613, 14655896, 121614838, 84095636, 43552346, 132536459, 52711666,
     49548253, 15873580, 71818179, 131450739, 103810509, 120055567, 19543257, 83357650, 63764604, 81857540,
     114737067, 78695711, 118140975, 51627213, 70707692, 47033789, 107110584, 35795712, 71657267, 20047904,
     91486168, 18347155, 108755192, 128646871, 10214067, 20586472, 12546793, 34557390, 6003277, 92835167,
     120538393, 86661496, 29493503, 87886085, 67850271, 124114442, 47772166, 97770919, 52296778, 75044394,
     46779737, 127606981, 116401032, 99437675, 14176541, 93823151, 99489125, 106139169, 67529102, 94797116,
     78612059, 97518433, 63084992, 3354639, 103916448, 27190487, 72886255, 107914364, 55120338, 2775463,
     55323692, 89271646, 57071725, 79076228, 74149617, 75013688, 32759180, 14139237, 131162115, 10780234,
     115453802, 132853534, 45230274, 55706724, 71389610, 41136386, 87050931, 28774855, 66213304, 61995720,
     23165323, 84682007, 86407262, 120199755, 89529688, 78334138, 78781201, 38501263, 69925526, 72608312,
     62941059, 105845030, 131265571, 48885309, 13146010, 112067259, 118824542, 97025049, 249132, 45706433,
     101821496, 46624183, 61650481, 20267640, 71432288, 36754788, 6867014, 8417032, 128209879, 60618413,
     24281306, 106867709, 110946294, 66278106, 133669097, 87901922, 119049978, 40458604, 85457114, 68471377,
     20433838, 21484143, 79521713, 9447898, 90733664, 32337362, 124704468, 67241779, 92088880, 95300197,
     21701422, 61768380, 5100447, 16244267, 108388030, 69394496, 47291325, 100879870, 45071821, 57383542,
     46934499, 30410578, 123877201, 15107351, 112238602, 55164548, 106148125, 99666971, 65166293, 96485451,
     132116242, 81040802, 77628517, 68900286, 119236761, 11960116, 129861429, 76914106, 80753434, 95616663,
     79600637, 62771933, 129270146, 40758406, 4063992, 45789407, 72274269, 64324727, 15901286, 88432421,
     109896847, 90175591, 125578597, 107551272, 75265758, 96517597, 40129649, 116360269, 120952864, 122527340,
     13785335, 82384452, 105900057, 49859795, 5581795, 122023073, 104202430, 78634708, 102468389, 24369452,
     106171158, 41691471, 88966469, 117364464, 24450277, 45647363, 110411020, 64094496, 30070412, 50860387,
     111242420, 45330008, 84137280, 127017232, 113058731, 94950018, 72218241, 110059501, 1821464, 50011919,
     123894331, 45462513, 76144652, 118248637, 59907235, 27410655, 61366085, 55885850, 75972079, 99411325,
     104952752, 77213961, 42457335, 57782565, 57525643, 64154774, 25572658, 21430163, 64453908, 6829179,
     104276517, 25764606, 5723999, 66498814, 113757518, 172982, 21406750, 14014537, 21932104, 69705726,
     28432157, 91378404, 99417648, 15046232, 92138115, 16295822, 113792851, 57465537, 25368779, 70912971,
     121364318, 2883469, 21640026, 50707453, 21552269, 15983378, 56493207, 115716080, 45016944, 68893176,
     101985083, 30245841, 90674539, 61348102, 8006439, 14928358, 14735364, 26727773, 70482748, 14127590,
     13972921, 130151270, 75418795, 126402393, 96466147, 11454177, 83046963, 10639866, 1267165, 126538326,
     125630560, 24151437, 34148631, 125768155, 61450964, 77928416, 70423065, 122510667, 131181090, 19617896,
     41497677, 132553646, 88267170, 39408735, 112530956, 76560042, 75775480, 82111750, 29911019, 43231294,
     37325620, 102315999, 17550110, 125717194, 98249539, 85561815, 66484461, 22303014, 44202495, 124706863,
     123244465, 89540001, 26807231, 32022619, 17017036, 99990636, 83290013, 123150575, 52844864, 63675117,
     50890203, 8113973, 79077160, 24442737, 81757430, 106180516, 2575051, 37788546, 13207371, 110436922,
     6387345, 57496036, 4550053, 20088201, 28363432, 122435561, 122187175, 41014976, 10279706, 89347315,
     25943963, 2643527, 77403108, 60387263, 50817562, 58671741, 89357964, 63520598, 27787265, 36829549,
     92522716, 90263053, 10037282, 95830559, 47436524, 65991069, 57349388, 44470821, 82432349, 113825251,
     2356171, 88245960, 4314011, 113845490, 15449601, 79552168, 80740261, 63155700, 59011460, 26238337,
     93041559, 116766583, 60073458, 67606461, 1003237, 33820047, 32984660, 5558956, 125086634, 30652577,
     111760941, 133097427, 100858458, 122991086, 42448638, 105952487, 96837220, 67970101, 37122262, 101044651,
     4446816, 127106707, 52476803, 49227644, 92980409, 27904907, 32697954, 125665929, 132654388, 25340589,
     42396335, 2366965, 83841944, 95444951, 14131918, 6612890, 11876667, 29401769, 107523607, 47548894,
     80246049, 96934227, 14253760, 71837393, 52553845, 36677461, 84302741, 26787721, 107908875, 25074674,
     58836893, 60619154, 61540757, 29381867, 117559149, 121998245, 78911704, 12575249, 103545226, 67339212,
     73616025, 24383889, 92918455, 16687308, 108302453, 45800027, 111903859, 78400371, 24722801, 9768306,
     94579098, 34826698, 95787691, 100668342, 58138315, 121505505, 40757160, 130133642, 27761106, 17875120,
     126332697, 14570344, 92037950, 32653863, 123851276, 122027238, 85793917, 28265531, 41571658, 33926543,
     104991232, 6479581, 116193206, 14357504, 109491542, 19898241, 73030614, 131661076, 67005829, 118579362,
     109993049, 35314131, 94836259, 18078628, 11233562, 14947566, 101892828, 26962662, 109782192, 83044561,
     67789943, 33341351, 29813277, 17639569, 60759637, 26496149, 66706001, 117178854, 110785723, 83675852,
     66523015, 13791302, 116056677, 48652384, 56945831, 73089115, 23838229, 183322, 55009969, 86544456,
     107282812, 76644533, 81814488, 17156497, 122567508, 79495319, 95197161, 17622390, 93500000, 52373998,
     123939165, 49459049, 96488971, 71219889, 73086670, 26646417, 116347666, 96192773, 123564366, 27405834,
     124355370, 48132043, 30377158, 82945516, 67066036, 109130300, 85715868, 124580211, 6693628, 104017079,
     55496101, 130707071, 81162252, 91527615, 112844589, 62277132, 5640074, 72569847, 43111972, 27023014,
     42318898, 112778924, 21898565, 3823550, 43649207, 110899756, 133060570, 116466808, 65852452, 102365939,
     9817562, 74739570, 105454565, 119629777, 132318590, 127169447, 123689553, 121046836, 81878482, 103186796,
     54014608, 126778314, 110200670, 41250042, 76934422, 72105271, 23941129, 30233607, 89170706, 2246746,
     63812038, 15481651, 93785794, 95618151, 27647259, 59887968, 38939847, 79172609, 40888925, 126352755,
     38968784, 961543, 94418527, 82272921, 47110210, 36260422, 89313700, 12251142, 2052650, 79716181,
     3354995, 120916289, 62850458, 118660443, 123040255, 126659917, 6311144, 20046225, 11508155, 7342216,
     134195087, 34464657, 41745635, 97939096, 9924847, 123953609, 8390949, 110271905, 10750913, 131726013,
     30057874, 108503934, 78928085, 81835691, 4634084, 105618983, 112761927, 84394026, 126373347, 41995691,
     44782387, 81123575, 111402812, 105943824, 81653707, 62208494, 3203368, 71397368, 111214617, 90429436,
     130878809, 81591657, 98443884, 65426112, 97750392, 112379057, 54245231, 38893723, 114801206, 82115069,
     3480872, 32027514, 47773690, 47030153, 111241986, 43128229, 22906624, 56322981, 25534319, 53018740,
     7075813, 108187864, 3919394, 35976217, 119034351, 129064527, 103394121, 81223378, 73001717, 28663104,
     113383394, 40117625, 20360840, 80009715, 132217555, 1608721, 96916742, 53949898, 109886728, 133704731,
     34589603, 33267275, 2571979, 5356691, 82186407, 23856126, 100651076, 60749059, 124558966, 79889227,
     20004750, 111891186, 30084447, 112559780, 82286830, 97817043, 109368605, 44071305, 39860576, 87840306,
     52522230, 67347308, 93501521, 103803392, 10468273, 68834657, 63962435, 29540191, 35971767, 35408350,
     4503694, 113397160, 49100532, 77375320, 39968402, 131319329, 120073385, 106675745, 75875515, 34254008,
     31325763, 94066362, 41212635, 44601430, 70410191, 109119760, 132685224, 39233051, 36767700, 118093968,
     50711915, 65124024, 15035535, 93938681, 10333374, 55968374, 26458166, 131029768, 87164551, 23584155,
     91892382, 132239586, 110495898, 91102742, 110959755, 28026528, 36800826, 115560603, 49863039, 87337866,
     126863142, 133507338, 70358514, 59390198, 86717498, 59184693, 94238710, 83009525, 123861520, 104381180,
     55046494, 28240371, 104035223, 72736895, 59670058, 113991447, 45910807, 12700223, 98917332, 29114686,
     82408173, 64108654, 41590697, 124314567, 78876894, 101175043, 14139339, 111719136, 122820721, 2976159,
     4235479, 125327541, 9569910, 91178990, 93419949, 93862903, 105360406, 31405161, 125334363, 74351499,
     56735168, 87204343, 126279986, 43047235, 67438153, 12748581, 12221579, 64783156, 39670498, 96711975,
     66504307, 62656337, 118273145, 130744596, 8009336, 41544073, 72776630, 87995120, 73808265, 127973177,
     116195041, 63498778, 49793956, 83327463, 63620590, 17074752, 89196724, 72429571, 30401505, 131530809,
     85360636, 6638591, 60328250, 76053627, 32267665, 128970467, 33552631, 129431754, 79560471, 30429469,
     91001504, 4645354, 38055079, 14727236, 51818980, 45218354, 129638702, 55869445, 46378736, 19134677,
     79391946, 51510829, 61331906, 17294449, 55667159, 21221761, 31009326, 5102390, 50152387, 61909897,
     111373748, 88283236, 60928596, 15252299, 133760206, 91795066, 127987965, 44201759, 34832475, 80199136,
     17435143, 98248978, 94804788, 39916366, 4850202, 128915807, 26226859, 70313623, 39242932, 35081047,
     31920850, 10884070, 61572546, 15209197, 127824658, 71354748, 65371587, 100326037, 43079644, 116913007,
     24186695, 41048589, 67551520, 13977864, 453337, 27302504, 29646679, 48723265, 72226272, 118357487,
     116209985, 24041847, 50065860, 108018822, 44654108, 31039394, 41604545, 26036451, 115912095, 85958166,
     68988887, 101906713, 120654462, 7341223, 90470963, 50799640, 34443091, 38839794, 51992758, 36156300,
     11307213, 84068434, 7736134, 55430, 124725141, 125397331, 78609910, 127666584, 110269782, 17778084,
     30571697, 119280759, 75213743, 106687, 72389240, 97065979, 17114642, 78931591, 109120813, 83836200,
     126219935, 38673673, 123698647, 88863671, 23140157, 21542368, 78396220, 65280924, 126128757, 5037266,
     132931923, 88077096, 66687091, 79960705, 118922126, 41772043, 115654103, 74440805, 117893361, 32030698,
     91086132, 96186279, 125818924, 118857051, 91384749, 47991209, 16081119, 107432211, 28202707, 112095444,
     29612098, 20599813, 20797929, 37538261, 69240334, 64025063, 41078902, 59981670, 39598012, 25857543,
     46061668, 27693753, 18122128, 61985990, 64186801, 105539800, 119228387, 21924119, 68724998, 29872463,
     102379082, 57774591, 52233229, 37196230, 133054040, 29249411, 46736085, 87065571, 41197844, 62056606,
     91067867, 17770329, 93883525, 58047948, 50571813, 60253897, 54883714, 97767000, 28317687, 119887765,
     82556065, 6834098, 34296210, 76390345, 70072994, 99906873, 6739571, 88326630, 64640400, 77388939,
     116098111, 6312966, 55369282, 83474452, 80179869, 125686847, 23375796, 3728247, 2051047, 80122246,
     33825619, 119823304, 23616122, 9241018, 109808956, 4273194, 36610001, 44611085, 129694438, 2998590,
     95088139, 40163132, 113725486, 52564832, 13772409, 50890561, 54610972, 98942362, 44388036, 100818588,
     27595441, 93092311, 123638953, 113126666, 105143601, 33383738, 22039479, 116643473, 80880535, 59513979,
     110514023, 118244847, 51640030, 42153854, 110583156, 60653346, 71792881, 132554554, 98907320, 19861103,
     109073615, 76410148, 13090383, 98690334, 104420020, 37912146, 60750023, 83214119, 113336897, 15564312,
     18327039, 105616608, 40761737, 132173689, 71769141, 33327332, 87653434, 67146807, 45762049, 103194700,
     91171217, 55072113, 125001606, 76851904, 45014005, 103147820, 9074878, 117540043, 48758440, 66134300,
     1951197, 15011709, 19760370, 18301924, 89196135, 34356718, 37112012, 118359645, 17057507, 107751007,
     122420466, 32128670, 21725473, 46863989, 45789093, 91713312, 67282442, 29758172, 115785863, 128011721,
     101375193, 31521199, 79189394, 6095457, 131354827, 113429979, 69054276, 89653116, 26160689, 73064441,
     65591594, 112250620, 50052305, 23369659, 52971739, 62918768, 66516364, 27278499, 110253141, 60051762,
     73326479, 51580190, 94318015, 40542672, 126096303, 30478430, 16230134, 69255913, 97680670, 62103546,
     106204143, 55662132, 83364289, 114917357, 98300173, 36558754, 42423061, 11539745, 13097465, 102768911,
     20207111, 86392745, 112042811, 30403030, 66436423, 71583370, 24144037, 7886345, 61700369, 24906806,
     70639164, 100243247, 64520251, 17378376, 3487854, 31948723, 25067205, 26439905, 80568388, 4242622,
     45703855, 46913937, 104216339, 64569909, 41562441, 128662485, 105833341, 44186025, 75825997, 45087494,
     43360217, 11461841, 40606418, 85294260, 54355130, 119133193, 9914398, 92587292, 104748363, 65766079,
     123250204, 82947149, 85891012, 42703591, 79060853, 47048551, 105414700, 57882954, 12639088, 133610883,
     100238914, 16152147, 92105496, 2135805, 20580610, 71503651, 75878748, 49248352, 107745360, 119239745,
     32485709, 3281474, 10623011, 75121269, 13847057, 88359977, 41232277, 57186254, 51548600, 39051915,
     111961996, 43214907, 64051374, 7968536, 102504295, 133290771, 31642535, 36663201, 93848991, 133607447,
     131003579, 44316366, 55529723, 105835373, 115707942, 43820919, 7538604, 11038914, 10449655, 132109226,
     5245396, 42037882, 115412383, 76471194, 111672553, 18062454, 100078923, 7039344, 118211293, 122930758,
     40561918, 79354960, 103823835, 35478911, 118551980, 108870897, 80639722, 114035372, 107222513, 97654747,
     111933044, 29929131, 87909526, 69254837, 107294961, 43254539, 120144680, 74192581, 28825875, 110519905,
     27782561, 18606285, 82747036, 60083674, 118296802, 50599240, 109645739, 133187399, 109637228, 95364382,
     20853448, 10839645, 35430935, 100020608, 125603864, 126142390, 97272511, 130965828, 97176168, 50403897,
     113288523, 44015490, 91140969, 44190473, 39332602, 85375516, 118478211, 58309141, 44430134, 118930822,
     127001474, 108814350, 86905326, 129148834, 26152074, 84443052, 114826966, 2335625, 106676773, 101719209,
     118466814, 107904893, 86823483, 56861095, 19447533, 42239178, 9863049, 128274334, 17709182, 31034551,
     70981207, 17277088, 64884076, 41743439, 78515593, 6210787, 59756200, 129179779, 96036191, 59222476,
     72373256, 19735413, 87281875, 67348235, 114862489, 52068027, 11494621, 81779137, 114011113, 81513845,
     31913016, 110088432, 130172812, 120827711, 61388931, 85355544, 55925448, 73431265, 130679542, 43916491,
     74699193, 30142689, 5911985, 110839558, 119783557, 2810662, 36915962, 82146309, 53877248, 92848439,
     19392794, 29422779, 133533586, 30817494, 86144808, 108973326, 121377981, 114061169, 83189296, 55690362,
     115867954, 79916233, 117232177, 67509817, 128522576, 115709450, 102007712, 23501999, 127876067, 19588730,
     89483864, 6753481, 99361523, 32398221, 124250120, 131123913, 126513460, 13070884, 131337750, 78649777,
     543693, 31995689, 78493867, 15460643, 128902825, 8534152, 87118118, 5550693, 25771906, 33250233,
     20652166, 29160486, 45126099, 54623249, 70829948, 122408859, 54806254, 11003895, 49551723, 79098826,
     11824223, 42253812, 86422764, 106606849, 52103336, 16452607, 68566643, 43745218, 6989741, 10042931,
     133557179, 6525342, 39462311, 39961029, 95409548, 4842283, 107635997, 118629733, 22784601, 14442823,
     50107353, 127899109, 47338285, 38190275, 23028050, 60932169, 88133050, 57176134, 101244548, 25442876,
     87289294, 131785748, 98877129, 32731970, 12549312, 16464132, 55723821, 21345069, 66833251, 79171102,
     129977242, 69293400, 60905041, 117897101, 72375171, 93220011, 70459384, 121983715, 23936593, 102396398,
     3124, 95926262, 119601462, 127065868, 125012614, 12590519, 2340555, 64550271, 20633008, 27773540,
     118202671, 44058462, 76599784, 6839950, 11494619, 67686085, 70122951, 34298334, 107875189, 17236186,
     34877670, 44454344, 57115711, 15919757, 99015122, 116847889, 52672940, 93254843, 566149, 98351241,
     38230437, 134084577, 74137725, 124435983, 92333495, 40208381, 55773211, 81610183, 42620695, 66411759,
     94586054, 41221762, 130892351, 7232731, 116345646, 2297492, 66239993, 96594739, 17142941, 16412063,
     88660307, 4371654, 28201472, 33575743, 30470397, 16062142, 84291481, 69647759, 29955641, 124758948,
     95588641, 25580657, 67678771, 39634237, 58139964, 39551476, 107871553, 113217022, 62062297, 120057890,
     96752552, 64188079, 83152701, 129750261, 99899515, 76827251, 119754632, 56156230, 28688171, 27355312,
     90988531, 111986133, 597620, 94719849, 28988225, 49142584, 99494019, 22285758, 41273172, 105615726,
     29173198, 4489403, 74813994, 58402478, 119129550, 54854766, 72588929, 45533007, 28604682, 17329204,
     39355847, 11736683, 17402133, 7937716, 44413358, 125203970, 6752654, 17370054, 87779929, 8959041,
     71255501, 14755303, 14910733, 97089812, 6294373, 15982373, 19711850, 50612976, 115531906, 127281693,
     129242922, 82429961, 40946125, 4081602, 59204884, 13748480, 25589531, 81491180, 97563230, 81693185,
     68340684, 75493798, 1653699, 108232139, 31309945, 22125431, 1078199, 76864229, 58733712, 35466963,
     116926982, 39025546, 118201678, 79908605, 80901555, 112596450, 128791990, 24316650, 122327258, 113494759,
     68522346, 80332239, 52793573, 121213808, 42333499, 14124905, 22400524, 16019818, 73923060, 19452581,
     63597917, 20918664, 1353899, 80814201, 4541501, 39861978, 29159679, 15933252, 34867306, 34619338,
     60388820, 65141947, 121101564, 108203053, 123965067, 29867687, 36207612, 118660968, 91072472, 81197098,
     74638549, 58604869, 120822810, 61224952, 40602930, 129905888, 59612254, 29419505, 79845283, 72915242,
     56302110, 14210555, 56122555, 52622367, 26923227, 16383638, 99554673, 48844080, 109213315, 84695056,
     87420196, 87553050, 75537071, 32530780, 118162702, 88463846, 115442907, 98628618, 2658698, 67173667,
     91151027, 9178235, 2768240, 96265975, 54639508, 47907844, 26964383, 96453270, 27513522, 44215649,
     58474162, 14627106, 6143053, 116360728, 97248385, 120868310, 65954944, 58087512, 117133516, 41092464,
     36670434, 52255875, 129842229, 81639715, 129249749, 37364085, 51386989, 77773267, 20711736, 84328859,
     16786221, 2229359, 9236712, 23212665, 5661912, 42614761, 116554297, 81563261, 48872003, 71113347,
     62741951, 112209733, 58523021, 131120735, 107631940, 27208692, 53834125, 8149622, 47924470, 103172898,
     91086561, 67574159, 51504486, 131533056, 88276340, 88191288, 61487349, 133642300, 76269001, 80564984,
     54031928, 76538021, 34002917, 111458149, 126635651, 80715159, 79017023, 14796160, 85374662, 23330044,
     38465779, 23000951, 85363287, 88255946, 74175678, 102018203, 78030497, 100303579, 72359232, 54319362,
     34559746, 18686130, 87839022, 77194774, 10835985, 119548945, 41741533, 58402944, 40750201, 100700585,
     58303859, 82844839, 367316, 66809901, 27469094, 70255069, 114620970, 38139076, 106294331, 27252459,
     1781486, 101174382, 81434040, 90654594, 69131284, 41271704, 13075835, 54563072, 99551476, 100860461,
     48618116, 98273825, 51299978, 124448283, 49102103, 97110803, 81646060, 97558098, 111897868, 51348219,
     113069615, 28217247, 41952166, 126425361, 120469648, 1076308, 7871318, 13710195, 83612178, 67594181,
     94018414, 85588009, 128278478, 87194355, 55997841, 14802434, 55649462, 45112637, 84248309, 29478618,
     45656469, 44842782, 130011575, 95114839, 46684862, 49587864, 19715609, 41945324, 45567346, 11284923,
     34168370, 45974443, 134018629, 107621433, 119225275, 111388315, 98519733, 85726323, 36803941, 85512468,
     37806576, 118419951, 20383529, 55379385, 78485556, 53168517, 29626495, 81736974, 14033654, 30853589,
     120923987, 128842061, 36117810, 60113601, 84021276, 119509253, 17365388, 107026021, 38203465, 124932699,
     18580124, 127055066, 37051542, 6342560, 1262091, 32076807, 48558118, 44752925, 126011625, 88424094,
     84010883, 15661452, 127396979, 93247571, 60568736, 85532348, 7989431, 36707429, 20609607, 126263200,
     65392209, 29038633, 30589104, 44757547, 12301246, 14279906, 35251520, 65846025, 62842813, 40951153,
     56456013, 106657713, 100595524, 48777849, 126238793, 77809705, 72910297, 24891305, 12208512, 103953788,
     15757695, 16903473, 54135865, 36527776, 11526906, 113374735, 72923468, 79450647, 95228467, 115159429,
     38885657, 115073337, 70035425, 133382314, 131409982, 133780972, 22343592, 94501290, 124742153, 63483498,
     55670508, 131650958, 118158275, 33000849, 50183872, 36725069, 123232428, 36359637, 118279655, 112717439,
     111490842, 101152028, 44202038, 23457219, 34799443, 29155374, 13203177, 39116768, 104617651, 51889808,
     53731951, 45478879, 62401789, 98046597, 12795651, 90029240, 9304562, 124766998, 112957080, 113893394,
     74981474, 32670704, 22181101, 61415398, 25421201, 78110786, 48340689, 101533286, 35676790, 4827121>>)
  @@ (1 :> <<  \* random.seed(1)
     18034063, 76397250, 113740630, 107678193, 102512094, 8470054, 34234785, 15826780, 66496171, 102134650,
     60329669, 63383683, 87455328, 50951092, 105860656, 28179657, 12597620, 65479012, 3804733, 119898983,
     112174493, 52319252, 58085012, 81528947, 102311500, 102966154, 282669, 93393106, 59778857, 35746282,
     96843463, 107619313, 30703945, 79343270, 126872085, 13720696, 120987545, 42604684, 4105718, 2996023,
     3415285, 87180606, 72667152, 1235465, 126050466, 118277206, 51164366, 92138303, 29071478, 130062434,
     56655527, 97422287, 3897788, 70817221, 29754951, 102502212, 58772277, 126052863, 66546792, 74203556,
     31284065, 46399124, 30986382, 90845073, 29364293, 102132676, 61686932, 127808087, 38893829, 124353614,
     2884299, 55858725, 112417812, 122979655, 74686034, 123774053, 86207290, 13421809, 24951916, 84470316,
     133216921, 97125183, 115420069, 39780845, 16225575, 99743456, 44653591, 120202094, 96835997, 130627706,
     95454543, 67216197, 125686927, 129816765, 56654242, 68144655, 111405504, 122162970, 89966890, 25481199,
     40717432, 38139224, 78863733, 130654435, 118444326, 67023240, 113574694, 126287269, 67818046, 52795029,
     79054544, 114526370, 4633978, 64454973, 32580007, 99821838, 107025786, 54262629, 55608283, 89220365,
     23220660, 49274526, 73658522, 118478286, 94360533, 104131166, 90527955, 99081602, 50291788, 11605483,
     58916432, 89088064, 68239848, 14486288, 104480799, 21971213, 69919170, 112736387, 52781805, 49730710,
     65725551, 98350162, 3969484, 62991083, 5836765, 41410118, 94406345, 113857109, 131961221, 82518497,
     79615772, 77601456, 52828055, 86859830, 22863882, 22628343, 67409318, 30459014, 131812095, 1651090,
     103417865, 26778633, 72426227, 123491910, 115466139, 73596743, 31162152, 54285013, 68957265, 46147529,
     127838008, 113744288, 77550306, 47415655, 61623617, 122105251, 36142079, 88478314, 73550819, 81731190,
     128461972, 97898435, 766266, 51497950, 105180424, 115017764, 110123754, 128130457, 118941009, 125957861,
     99388685, 68786576, 108600919, 17347564, 69615820, 104340483, 75344177, 27579764, 57188922, 127469162,
     7532741, 64572392, 116770786, 48954043, 76504015, 74410468, 26821992, 126300695, 67742434, 55485614,
     65085546, 109166191, 47887538, 55623117, 46449792, 212701, 72273400, 72492277, 83683337, 105554778,
     82201978, 44444516, 61491422, 80511200, 3754738, 107987488, 30817065, 85278064, 23784892, 73921254,
     78445010, 24264416, 115562653, 12294532, 107164660, 73957878, 106984623, 114256063, 109580368, 124949997,
     34264986, 4356590, 112977078, 126643855, 90343768, 9456105, 11171496, 116511469, 2240178, 60800468,
     1954206, 101219666, 101413140, 37741579, 33495272, 36056483, 14695314, 107010145, 83859516, 24777959,
     46227654, 38961302, 9330196, 22477484, 21424575, 34254527, 70783798, 127769593, 22568032, 88134944,
     36629955, 87000307, 95507983, 39526151, 61029019, 94304805, 43218345, 66638250, 63588469, 15326409,
     3172179, 41876592, 51882816, 46082646, 56494748, 106864559, 25238208, 34684657, 14597747, 34018576,
     120771594, 97999373, 68466607, 131095592, 28063717, 129595741, 81288784, 57935826, 109661207, 130936565,
     2794159, 30249188, 2397735, 53326766, 19657762, 4741381, 96480463, 128834700, 21505383, 59816615,
     94570566, 67955685, 91023214, 57266010, 73108686, 111702020, 29608396, 131127519, 130942079, 84660762,
     107080360, 93288151, 69336813, 60511395, 29956830, 70316055, 87041058, 4120521, 53002313, 90583890,
     77288736, 107828578, 43116882, 88560063, 84684388, 57216934, 7890004, 98979031, 40078212, 16868929,
     129909783, 28471833, 117512217, 6367312, 41122516, 9492800, 115227853, 10260429, 41656300, 123101320,
     126069159, 39980750, 99836799, 21234236, 55857695, 75825060, 33870931, 17500801, 1138201, 75258204,
     117939519, 114155756, 5089070, 79266838, 109979900, 29204480, 129144448, 120905073, 76541762, 61854574,
     23020634, 111120622, 116471602, 116754179, 130697899, 104692145, 94492386, 83612653, 68299878, 5022880,
     50730118, 26898233, 46564275, 13290959, 27616875, 76958123, 90483285, 120335017, 58109581, 79377614,
     26054163, 66082199, 14015581, 125890041, 89383306, 52353039, 39738201, 67660145, 67082010, 2308571,
     43667154, 82158477, 116987058, 53999108, 120752773, 37762388, 2428399, 21067525, 26958034, 115096633,
     43988612, 108869241, 132479570, 75610286, 105052266, 18138605, 45512647, 57611673, 28592375, 35773782,
     90523827, 12939273, 112434334, 50899886, 125116084, 73501187, 46150740, 122734681, 118432810, 112433217,
     92222367, 71716564, 65028317, 103072662, 132272675, 71473680, 31492906, 8767473, 97370289, 5422457,
     11365588, 17853241, 22775962, 22354304, 122270710, 72237154, 28584107, 35971685, 101886849, 44591622,
     80558665, 67899202, 112894852, 34264608, 49406619, 45479889, 45672311, 15289132, 39086254, 31566601,
     116423117, 126700850, 81065162, 104628066, 128084978, 95980256, 119086706, 65604662, 18165829, 77840518,
     73976848, 103381629, 13995553, 43047109, 5252986, 54572784, 9823854, 51033638, 116255148, 133041091,
     105779199, 19774080, 111200189, 16779531, 45754483, 15393345, 82568871, 78840556, 104945324, 124307821,
     50739620, 10288008, 76608999, 73856627, 30026394, 75962740, 10971394, 127808325, 35799041, 48974948,
     119556874, 39668399, 75758771, 71711751, 124160418, 15343247, 61440749, 120361011, 37202841, 14459367,
     105631320, 6140693, 111101161, 39693274, 1661849, 82366322, 89981127, 1952620, 12305500, 55503652,
     15448795, 110879947, 118790751, 106015659, 5371868, 25222476, 32163045, 105429653, 132628388, 78758006,
     56507487, 21745934, 15509956, 60519930, 22465824, 91387514, 32402882, 21333204, 99858850, 113416517,
     13802165, 58398513, 122240730, 129479009, 50771515, 108244901, 130226634, 72870219, 122033808, 109837092,
     39463177, 73847813, 34012132, 95510804, 64023211, 42206072, 13439106, 27865562, 87516696, 42602900,
     5317735, 3659117, 1410111, 105610554, 131880141, 124232422, 39668030, 97506995, 80070356, 42983398,
     60377111, 52515243, 42047845, 53493168, 8450991, 8615701, 122593401, 42593933, 130166134, 80724836,
     130163883, 61184223, 14946796, 33562864, 28882751, 105379118, 82920635, 104410604, 131527049, 119616100,
     72868575, 116449158, 92367272, 62937390, 88829913, 47758289, 34773933, 24591740, 72692625, 27895397,
     41247942, 26738305, 33068724, 48380603, 10921130, 110055456, 37686556, 12001052, 131986588, 101104427,
     60116421, 12145152, 87511372, 77088788, 86364555, 45484211, 126263250, 30524632, 52409143, 129734599,
     41175891, 5509940, 43921599, 25073596, 42511471, 106398661, 113700503, 77712954, 119923572, 123661700,
     40642380, 32997177, 44873470, 13548960, 73044698, 82059611, 77710109, 108389901, 79988738, 12353926,
     32896497, 29548761, 2734555, 108483272, 32716819, 53925147, 9707637, 35978916, 73981449, 116441402,
     9518233, 97867442, 10083750, 2887570, 85279541, 1331032, 39033407, 100761105, 106325238, 48209850,
     66204376, 62925887, 115782785, 115308475, 20693635, 13547193, 67300739, 104387288, 106700878, 44035971,
     10349124, 68353066, 127403218, 89288001, 23252162, 24100997, 104181006, 20073997, 132190486, 18996932,
     110266593, 116171570, 42920682, 41020008, 14344886, 95203854, 69035995, 112030082, 123393999, 80784664,
     39391493, 16951674, 119958275, 27748247, 19016054, 73214825, 122202781, 96989562, 4262747, 104655394,
     42422019, 110196759, 121210457, 83688454, 107891763, 90220931, 121756117, 74215896, 112839329, 126631018,
     100151239, 132464218, 92555898, 27572905, 23911541, 40121219, 58067689, 72140997, 21192569, 6517451,
     95942113, 115708967, 89627745, 33191626, 33901573, 104391399, 8645526, 91546667, 129303464, 59954386,
     108481831, 57736629, 73721762, 33583935, 72662478, 58975109, 114258567, 72217178, 60842195, 1458480,
     53111356, 112245078, 45455403, 23020703, 34624025, 65200705, 3276053, 106443660, 86763552, 125176746,
     55926363, 131038378, 76585123, 2538188, 8364667, 92838861, 47639702, 77855754, 18560179, 79664440,
     16794532, 18588591, 34777553, 131965160, 111257689, 37166812, 53391451, 75708454, 53832335, 23108832,
     82200966, 11978560, 31343819, 65229373, 1003569, 23834130, 70961146, 42579451, 67229608, 119861173,
     87085775, 123538766, 58829905, 124836966, 92142232, 85780005, 98169792, 30297045, 31994107, 42008119,
     66447472, 92200782, 64267056, 128384589, 30207321, 95676585, 55330739, 45224864, 75216612, 82045516,
     121727359, 97740130, 123172492, 87698899, 36940122, 130507113, 86760376, 29456655, 6468937, 123695529,
     9603464, 102434205, 68678098, 86609146, 117765866, 49484750, 21403396, 68670059, 102814518, 106364872,
     118515538, 27359509, 41849360, 40093245, 92953422, 40207094, 113949659, 74130845, 49877231, 22169911,
     94124565, 94123666, 98840366, 62381495, 79802882, 11404910, 114927572, 16541515, 120340201, 81350058,
     128859597, 68981368, 76669554, 50626619, 23659350, 20908333, 33634346, 57277802, 29208285, 126391934,
     76439324, 96582764, 101703498, 104994316, 6997202, 66441242, 91487696, 52829070, 96254681, 85493058,
     46705287, 51536475, 69129619, 113476391, 22118833, 73044359, 97965002, 133454171, 5463827, 70353438,
     131697261, 12133522, 108440372, 34250206, 84348930, 13562223, 35906764, 98906051, 122522383, 11236699,
     128773700, 130838244, 18673196, 130087652, 104120375, 82799271, 113002046, 129761854, 88545764, 92157811,
     94007139, 11006965, 59734771, 114215312, 124058493, 32345169, 130353267, 114219397, 51318592, 126164275,
     107738117, 121255775, 58105752, 53316647, 22112936, 122149429, 43683478, 58804672, 16955735, 83537455,
     121988447, 65493757, 128771720, 28456189, 15996972, 57882804, 80621781, 71679587, 54790910, 122043648,
     15849775, 88652112, 39658052, 37268563, 33315037, 50848319, 100606496, 75077924, 538072, 128822729,
     25479719, 70915702, 58891124, 77723154, 2823226, 4135032, 84225192, 130606127, 81285952, 32512793,
     112116410, 34949865, 27730163, 23199836, 38222741, 19919312, 72791566, 26903574, 36671732, 41759920,
     78616434, 101659146, 33672842, 111716787, 91741461, 59914326, 106178398, 115593823, 108535785, 114768133,
     130676542, 22545835, 73199262, 47909746, 65875306, 56366954, 114849801, 16347720, 103222477, 28044153,
     76577203, 117967974, 51439801, 27490708, 38124202, 108791738, 14514198, 121335215, 108387404, 3241444,
     15847292, 76411303, 100296242, 1773820, 73187194, 39783826, 129512769, 90451196, 102148503, 97216019,
     130663613, 87158881, 18333338, 10090968, 67158722, 50160824, 76850156, 108109547, 41775463, 58675854,
     67515877, 90900689, 47891403, 101818937, 70919838, 43444646, 113376, 16629681, 59366424, 96363986,
     60337867, 47004760, 40909454, 72382996, 53606929, 45548818, 105104199, 98131094, 91726124, 76694028,
     66075271, 15179403, 86928559, 123186689, 50675005, 51322933, 27368880, 74744318, 520181, 133523935,
     37261693, 85299789, 80284239, 96943868, 118334795, 99128502, 111323035, 97761581, 68579918, 26693123,
     132475332, 123924374, 61952349, 80642357, 112017241, 69378817, 54890398, 125825975, 99942629, 95580345,
     132552312, 132551533, 40981583, 94340554, 22859000, 60315855, 83219515, 89770241, 71263732, 26489361,
     48240808, 70624120, 472344, 91073194, 52232525, 77758530, 57159232, 130233158, 54392012, 45098525,
     115594388, 83433072, 78440601, 130793327, 98493101, 93885803, 120515328, 129854981, 100498673, 9092677,
     66129349, 132557920, 100095332, 33236520, 85947046, 129789130, 87073138, 39042058, 84513596, 2788550,
     54626477, 96809144, 84458120, 20949373, 85058137, 104536453, 125777843, 53327055, 105021840, 36273508,
     113584177, 23911033, 103012078, 9853305, 109431184, 104163353, 81263787, 1359366, 46902396, 122495134,
     35511763, 107145658, 95028839, 55182267, 117298519, 91943496, 73047563, 40757742, 20410485, 62018087,
     111800050, 34809482, 65034271, 22766267, 62693453, 68494857, 6091882, 36348908, 68488746, 13237906,
     99958339, 79273852, 56720118, 9362262, 47671092, 8992440, 88160047, 59389133, 2649644, 22030331,
     68070345, 95327343, 126987029, 21693228, 92670307, 12489421, 53945289, 85358780, 92463698, 37016657,
     81200909, 40856317, 28036659, 70879415, 27878140, 31840944, 118920301, 44821396, 36113858, 9201185,
     10050864, 93844368, 111491658, 122183737, 70222415, 88420619, 49420063, 62805391, 68654907, 74846640,
     98881648, 6676309, 22622882, 39846056, 87653168, 98661631, 95755892, 133730020, 109387910, 74657574,
     36206659, 47761590, 81828029, 99300302, 31153797, 52688394, 75302141, 53648925, 23134166, 64910914,
     106000816, 34832431, 116328902, 81926713, 44244009, 96106912, 29839092, 34731190, 129357491, 81866134,
     94850368, 32779653, 113251928, 88696470, 4098267, 114322915, 120714526, 116558874, 83544101, 54035847,
     42483823, 124553734, 57950600, 125241759, 102219281, 33343239, 105416208, 36116845, 25488063, 9736064,
     84005064, 98290804, 22230418, 116910771, 130600537, 77731739, 59535837, 78038634, 122560247, 125216143,
     97743771, 19888392, 81370826, 126899608, 35162901, 61658487, 70678025, 21815185, 18605226, 104483567,
     18535198, 119973228, 96066307, 59147253, 48464648, 41575533, 100848021, 53788560, 32278505, 15547372,
     96389554, 27674241, 96432340, 91455783, 41002963, 9157168, 14278811, 30550599, 53285492, 43133573,
     66083641, 124635430, 13418311, 128220990, 25066672, 6037202, 7428018, 108646270, 80196914, 3125048,
     119302933, 100988946, 29065894, 91710890, 4659158, 66365357, 94479025, 70938929, 109375443, 97168530,
     129402208, 119074964, 82299486, 59362806, 45961943, 88976310, 112456822, 36852756, 15846698, 82307979,
     92964156, 23177808, 12781668, 29805080, 53647597, 31301996, 66440846, 60373001, 50720110, 100745503,
     22628783, 130652667, 31100571, 31640051, 110078669, 38069719, 62085873, 73419715, 77837255, 52290352,
     28441678, 60625732, 95956959, 34611387, 44307588, 66616681, 79674138, 14890870, 122069287, 28702152,
     133465224, 10583386, 6203268, 2068540, 107030949, 701611, 115103489, 64477987, 42892554, 119296717,
     51425203, 113805038, 77880341, 38549405, 123324648, 26291143, 53677507, 21483952, 118115649, 110625457,
     101812270, 86710608, 20437746, 106532973, 122632043, 4087841, 2037566, 51978738, 19485494, 117615992,
     89229450, 72823253, 7666474, 75798671, 50934270, 34113940, 17445467, 10672785, 62127946, 87530609,
     112740253, 40721867, 121612583, 1938305, 4760654, 72072317, 8167384, 70451402, 112826648, 17304055,
     5746502, 125276226, 36720663, 104796354, 15762089, 58050498, 12218874, 25516257, 3707481, 67063505,
     85565548, 17490144, 99940435, 37483092, 92176893, 109674405, 113497567, 25759942, 88988526, 60064360,
     52304907, 44265675, 84699845, 35966749, 130136812, 34875501, 86114541, 85309907, 32627220, 32940501,
     8077772, 78909959, 125515855, 105758763, 79254964, 23525218, 46924496, 57508789, 81249070, 93691537,
     75196501, 85682069, 70084708, 130076090, 8161060, 121473351, 47409399, 73407141, 55384948, 72221808,
     26758765, 95515828, 118125724, 71995042, 56924392, 123469668, 88903899, 9406563, 95770583, 35848885,
     99761763, 81961764, 96786455, 130508145, 100959716, 9701823, 33766589, 23834178, 131050683, 12961024,
     20268186, 7879803, 123298766, 27292707, 114698279, 57458854, 114375555, 6027140, 7088206, 85513176,
     12243083, 122454162, 109126502, 68832163, 62970505, 67260235, 49694542, 13325420, 132162515, 41968199,
     5384538, 16995522, 71332032, 4454155, 59505399, 89154999, 17207131, 120180378, 53041270, 102462106,
     94978826, 120629773, 118422396, 59872262, 3304401, 98868203, 70398481, 36237375, 12130141, 33555569,
     107426991, 43676344, 11513905, 40512227, 4589349, 115386305, 51571310, 7806446, 98328736, 35031782,
     42037890, 98679800, 17448962, 34936878, 106645678, 51027323, 108302886, 15721736, 114871557, 90971679,
     40767893, 12624313, 57019765, 112928970, 32935687, 67476480, 74783097, 27569841, 44306233, 123887931,
     45454623, 68359790, 105175886, 52491508, 128351897, 120221910, 78401986, 64579184, 14050976, 17411191,
     87587124, 109344683, 60211645, 70296048, 132611216, 74980221, 96553749, 113280543, 112043094, 78029302,
     94125048, 69803779, 71889566, 4062551, 120368926, 131504485, 111617752, 133028285, 39101098, 99747740,
     21076464, 26840082, 49707786, 52242711, 69937861, 43516123, 13070134, 54962549, 46356023, 16960658,
     77162532, 8705747, 5848486, 40331908, 109380559, 107235166, 87391450, 71629556, 42097413, 56047743,
     40039964, 42788518, 47327337, 36597066, 43659509, 100493715, 100463818, 69806990, 67250713, 1155796,
     70615758, 16356307, 19965759, 42561887, 122731106, 97550213, 43697658, 105321547, 43964956, 76921521,
     9240372, 60641416, 131454397, 37528924, 64383954, 60953926, 122525315, 48877453, 124502678, 99540870,
     130157929, 51073566, 109471909, 119397665, 124210887, 10491848, 123787577, 77707694, 107557749, 7529695,
     18063185, 6539911, 70291397, 66058277, 77256262, 114501059, 133210763, 33811932, 105219793, 32932322,
     94343817, 77011968, 100213537, 45452681, 48530145, 132956655, 126475184, 106959515, 86369227, 49678653,
     54032649, 41256955, 62353741, 80297287, 131500480, 45694650, 71421064, 68121147, 22521404, 3902021,
     19911870, 33571277, 92240086, 29679846, 75534453, 17905658, 121709476, 15134580, 24776638, 102854382,
     55178090, 126056715, 97705166, 83175301, 6724983, 108948296, 13317405, 131344940, 73243674, 91444804,
     35665571, 95919748, 14352921, 27426687, 35124453, 8962150, 84844540, 76667359, 70649183, 86037885,
     10535656, 114776341, 9772586, 106597363, 114169222, 29176347, 86334071, 112509837, 23268959, 68649178,
     115673410, 57994115, 2932574, 79236663, 49406188, 120797726, 113766937, 65320137, 95331954, 108374398,
     38084603, 29519156, 119625777, 26895285, 80272670, 66251929, 116164546, 120642919, 119828698, 31570925,
     57102137, 60692407, 90677542, 49279415, 73078373, 122490130, 126800217, 25343725, 107127321, 64714176,
     97417710, 9756701, 109257575, 112850539, 133970760, 131037126, 34435059, 54668274, 27026569, 1111303,
     100231492, 71402263, 103392279, 51098910, 69026002, 117584380, 65374209, 10255969, 54189477, 82657263,
     118473576, 68460219, 106868433, 77615575, 78463361, 57122679, 5384692, 47221322, 114238290, 132591254,
     61532611, 859160, 25469226, 128919077, 40178650, 93414938, 92789342, 86178316, 739147, 72581249,
     16112119, 110308838, 40621483, 68785505, 119076807, 133403346, 100241911, 42352674, 130297459, 104229295,
     72884083, 86576854, 76768275, 133384460, 74004542, 37917428, 70548490, 55222095, 72751453, 126114482,
     109866276, 124391570, 127958985, 69506621, 54801201, 80902333, 84552503, 77988482, 41306768, 60736510,
     40521726, 17574963, 67956764, 59617274, 78687513, 18834348, 73819007, 103684420, 131074308, 130802196,
     21873629, 33922694, 85451651, 1289270, 133483692, 56932207, 98802405, 88791514, 75954955, 4865364,
     49440865, 56487955, 53974167, 37789669, 125698001, 88448414, 120169218, 100799312, 89882430, 2460306,
     120627900, 12143597, 124173363, 12083800, 113594311, 646709, 51461250, 36087819, 62325967, 36501532,
     106824896, 104896502, 50013958, 85340553, 100577907, 114387756, 64615149, 103164474, 45169809, 52138060,
     61223186, 107847978, 15637634, 64924352, 47579749, 19420667, 55726453, 19899162, 2437873, 133547263,
     23095377, 109260295, 34927888, 49360709, 115143245, 17061583, 79131703, 105516210, 38539936, 127457112,
     133912610, 55420000, 34617516, 126037754, 68959503, 38557656, 99256665, 56472621, 92787472, 36732049,
     58183745, 45084192, 104286864, 122671058, 65202181, 28919125, 96028095, 111349844, 65951442, 127419117,
     130391809, 53942720, 96124044, 57058989, 12264445, 8649150, 17377186, 27667591, 129723420, 20079420,
     30766511, 98001150, 3507921, 13859995, 33987116, 20899421, 64395928, 103978980, 127797901, 13281161,
     53570308, 87195933, 97107276, 25157098, 111986242, 402117, 11967123, 57403047, 82126747, 128153270,
     133651914, 6827980, 73765522, 29296666, 71737520, 56623671, 46533627, 6312902, 126984116, 87454906,
     130137406, 124290869, 13847222, 98585726, 74200104, 91142943, 56321681, 112059643, 90146821, 99471567,
     15924481, 133563508, 35612565, 91879338, 37413645, 24030572, 64385980, 108061450, 106472619, 94511176,
     115138344, 6398846, 105551994, 28752097, 90839475, 86472700, 11702813, 116285855, 52306940, 16614586,
     89751612, 60034639, 39493268, 91531036, 68158231, 66835244, 121477561, 52758667, 15590333, 81350877,
     114605384, 64315901, 14204218, 20016362, 51856956, 82360826, 121519308, 94272952, 27004615, 22430926,
     69892892, 34575767, 55915646, 99747535, 119178266, 125513607, 133152669, 72036750, 38734237, 116625940,
     66099082, 85048716, 120125557, 108743540, 73121237, 122546181, 28806471, 105859087, 101960149, 83692368,
     45243359, 115567907, 65226376, 13805558, 1149159, 101706992, 132736909, 97882636, 88218945, 46557256,
     124260496, 118804154, 130014737, 95133616, 35907763, 7575084, 72549510, 83946729, 59089520, 40247091,
     101986040, 121358675, 113063090, 13523595, 30676825, 68184456, 36851445, 36284106, 94792820, 33064449,
     55249795, 19909433, 17475354, 34402172, 26214143, 54722965, 75275920, 84560663, 80328564, 121265149,
     128858625, 7842328, 71508514, 111997426, 81736014, 68365899, 19978946, 126951729, 55539553, 36260558,
     37552951, 64444233, 93338073, 41043385, 35843817, 65944721, 28776322, 66942186, 49349764, 80397319,
     63156025, 32435394, 45418604, 23643633, 81299993, 101860085, 24320744, 99214672, 118099560, 77919700,
     93170103, 60547447, 71774704, 20056094, 7806408, 67638546, 43755870, 70931585, 92624643, 18128432,
     86579061, 102194476, 108978644, 132723640, 119656251, 28612642, 42327757, 83556933, 66267410, 64479130,
     44297435, 15892330, 17169435, 119085311, 18806197, 93730782, 34422746, 30202724, 11815020, 85263508,
     72319938, 111270126, 94344653, 6715048, 75574324, 23096678, 91907837, 15587709, 30366493, 75599524,
     26763598, 67513769, 76178606, 88570889, 118686803, 41320694, 56675388, 43975225, 568632, 103856225,
     2691280, 110289923, 40977288, 110354898, 82594131, 29563665, 11350180, 99730570, 30133268, 37604125,
     91360739, 83973650, 132203380, 115591362, 45778017, 36114536, 80683508, 96471046, 69582474, 50905635,
     3103755, 16328440, 44269625, 46576670, 18715478, 15220368, 33664715, 120609345, 103345098, 19230587,
     91429462, 77042077, 5506004, 46573776, 10385113, 12323885, 97298352, 134053768, 13852571, 40263461,
     42549702, 33413800, 36149884, 71085329, 6679548, 48554180, 4183563, 10511629, 18660932, 124253649,
     53596793, 49936671, 125319861, 96643622, 85681661, 92785016, 32488877, 12597847, 91220298, 44133686,
     36726425, 1068755, 69154075, 119211126, 43194980, 128708277, 127328454, 15060853, 47293296, 123927558,
     107852373, 106164346, 86059462, 97195472, 113189243, 16898001, 81357467, 124451334, 116821095, 36383717,
     54380055, 12223612, 91134198, 77395849, 83300509, 97358091, 70831219, 63832018, 75757851, 56199792,
     71908755, 125345588, 52851011, 40412314, 120570387, 29446366, 84923503, 40623873, 73702051, 17867591,
     7239577, 80542906, 68253488, 14746297, 23507795, 32290301, 28859927, 120424421, 58332671, 36841944,
     73277084, 2682490, 33609747, 72320933, 36364196, 126813424, 71155037, 35130803, 63516402, 16921264,
     54128329, 95143293, 13925561, 99980901, 50127322, 9271060, 87834934, 131194114, 73041145, 48740154,
     73115471, 74556207, 113255349, 107972896, 97061301, 68096016, 91884012, 77956716, 4082052, 83086903,
     41356234, 59792250, 91591831, 17745081, 20907468, 9978671, 122604276, 77750088, 19049057, 90814191,
     117993682, 110977087, 29027047, 64970974, 112956264, 107507674, 113847460, 102996194, 45025311, 49001703,
     119264849, 39237636, 21443670, 20884892, 113965549, 106718629, 51235543, 111820841, 59017897, 54444088,
     15818871, 131091115, 80665561, 19480838, 36206013, 39633478, 89507024, 92201534, 107292033, 85747957,
     81025097, 127924442, 1098546, 72112402, 127820272, 1301693, 123437516, 109417858, 86293318, 17794235,
     50936479, 100259112, 75418788, 126472260, 118489030, 13575196, 61676912, 4075682, 104584902, 57975870,
     80337215, 91167298, 56677358, 37052519, 125295813, 49679902, 54818668, 54510356, 81306297, 62006940,
     7150354, 13312608, 63184856, 104574366, 5021653, 86715794, 94507113, 93598705, 79220, 109009985,
     5645944, 111637627, 14915027, 78838328, 18733425, 71194984, 68193123, 102435361, 47820219, 73957885,
     36360026, 105082590, 132019725, 76265731, 122003903, 130003840, 87894135, 47837616, 107654290, 63607652,
     110019394, 93613141, 32906621, 124491648, 108486318, 83455537, 32186971, 14165396, 75478219, 127771048,
     48011963, 117037434, 21294877, 15623375, 104267637, 5446357, 122989296, 94496575, 42103907, 56692841,
     118079728, 97613498, 46473706, 34022960, 88255586, 83989888, 133652616, 120576204, 103625579, 122887506,
     7471526, 82805942, 58367621, 55691671, 50506568, 48149834, 39450857, 101187679, 109539859, 45799917,
     59192728, 107131494, 93850444, 31951861, 85219014, 81825270, 69658435, 19377480, 7520383, 45834975,
     90333262, 15233918, 119639412, 68859520, 23112216, 72884778, 86267695, 84007512, 65423001, 120046611,
     45766175, 101666589, 95351860, 16305059, 130888989, 78219541, 2907784, 64458865, 120434340, 28080247,
     51437419, 84772253, 111917231, 127922143, 23449365, 53317265, 96179295, 30575391, 13381036, 33333495,
     45044833, 130845468, 130178939, 44164140, 88129441, 32906466, 105296996, 90838225, 61915366, 99721902,
     63238960, 49600143, 66119027, 87433250, 103771146, 89010219, 97072945, 125731011, 26007114, 57980877,
     59136920, 53533809, 72749219, 16161190, 76695854, 65535523, 124389090, 35763213, 112708958, 16806049,
     20116719, 1602871, 50482068, 55648956, 14626041, 107241192, 3519701, 87563863, 10010757, 126345818,
     24557218, 61578715, 102821138, 50602427, 89552943, 67382666, 107088429, 109379753, 38722272, 123206288,
     20872335, 20708272, 130473089, 70411079, 110867187, 14191527, 127074938, 34170266, 2521558, 62334911,
     53223701, 108833313, 85066956, 94580880, 98794257, 106426347, 122493892, 30650847, 72173139, 93349485,
     52451267, 133097046, 714577, 73031024, 107892698, 33483882, 131823005, 56770102, 121768556, 21327853,
     88888174, 24032049, 45966278, 88906269, 32098204, 10208240, 104021381, 71988824, 125551204, 74874239,
     128892786, 21602136, 23569623, 50423352, 78564716, 2895505, 68869568, 29106856, 57368036, 31630136,
     106622656, 5429860, 125598585, 69210988, 97257497, 25533484, 93993461, 67649681, 92692711, 82123430,
     87718895, 133977417, 72041900, 10364401, 33274682, 53440547, 104619634, 62404122, 15984450, 76103146,
     86421207, 6489087, 51940558, 12037362, 75156900, 12695779, 86092128, 109387883, 64280028, 6037048,
     131277569, 69588843, 32103947, 104334912, 1633206, 2798583, 128212556, 115331035, 41876967, 62603086,
     37322269, 97031015, 55775391, 22373842, 79855083, 17877987, 132354056, 75385407, 94962355, 110960956,
     42724215, 103428092, 71764645, 85429886, 60221547, 133154955, 67321882, 107782823, 56050423, 74332444,
     22497288, 93802345, 53080972, 93757127, 52222654, 108498415, 26940104, 66490663, 109644968, 37370340,
     48317163, 124578798, 20332159, 34823146, 76084583, 37512282, 113392963, 23509218, 104765133, 96765365,
     83488831, 11229122, 98118260, 48388658, 45112534, 124602717, 19154407, 34691050, 34226817, 33859664,
     46889452, 51574825, 37464700, 75895908, 62781873, 1807668, 20002780, 128024333, 17483440, 128689713,
     33920023, 30321851, 26374279, 9456944, 107602436, 77758472, 72149655, 83003805, 26630303, 72881841,
     57608544, 96114638, 117026526, 32189237, 77525790, 18682156, 74345112, 61807778, 52521822, 95499628,
     26284856, 11082317, 83940449, 125459358, 10354818, 20546146, 105520628, 89563111, 7720855, 4061517,
     100173040, 54410189, 51355614, 56002896, 91591712, 18448856, 79323402, 80115108, 17337665, 90286694,
     72276528, 73329802, 9954599, 124482105, 32375773, 114074268, 51226734, 18713583, 38342135, 27167243,
     88819836, 96490145, 132450709, 53308081, 47897141, 100536888, 112554597, 23931472, 30212322, 39975572,
     95204780, 19300784, 46670237, 66051546, 71855249, 39160575, 11889457, 69026119, 111045469, 40122393,
     28029377, 94674498, 62203575, 2939619, 38962841, 107446753, 108743599, 83492867, 79536718, 13829678,
     82568724, 50013869, 101300637, 59538045, 34211637, 82994864, 7817937, 6987976, 111206819, 104858031,
     42359806, 21461665, 109021185, 17766252, 128397968, 123926362, 84448619, 110310784, 13863616, 15101872,
     114620212, 58423970, 85017283, 78718628, 33004032, 99947749, 27900111, 67677189, 68145201, 53260587,
     16316291, 122425508, 121603956, 132298862, 95007655, 28477626, 109962192, 127133648, 51515518, 88698229,
     123908639, 69450338, 17979104, 109238856, 96133454, 77624624, 34172373, 97316973, 487428, 96329486,
     16225777, 108530934, 27050783, 132358380, 102454467, 75526028, 50741006, 88993191, 64697057, 73148202,
     82353559, 30959753, 35924767, 5061084, 85689105, 22518327, 90136858, 90006099, 123664074, 74406073,
     67493642, 31288484, 114794560, 55088738, 129889437, 36734042, 103199395, 88802744, 56531411, 53491960,
     36504510, 66300326, 13117350, 89829943, 111538530, 111909488, 17394620, 25052040, 75096550, 2130224,
     60925549, 101171728, 6019184, 65559405, 28767928, 52873817, 110447309, 97995500, 72297669, 110373377,
     124070146, 45130695, 121866205, 32679564, 12620165, 10350003, 91015297, 100139249, 5725483, 113602337,
     56729346, 111905824, 59294029, 25339110, 128429284, 23249333, 79902162, 67377298, 25501449, 113729049,
     68417125, 51647473, 70038687, 48391724, 26450903, 31234953, 48282324, 88400475, 117775336, 78659192,
     131730797, 101622159, 104269231, 132143069, 8657245, 45773228, 121584709, 6952275, 61533384, 5932395,
     111945106, 81954634, 23726992, 119625241, 19821897, 114594603, 121690151, 125967532, 38322307, 62969069,
     5778801, 78292229, 67249551, 8707433, 132951847, 116228109, 112138651, 75891377, 53190437, 12346012,
     133288057, 53679606, 106927263, 68681796, 113020167, 76831736, 86719007, 40439625, 52932966, 35959295,
     121562303, 47270347, 63166784, 128986382, 125445548, 6587965, 74113830, 127191562, 122119001, 117006470,
     64042848, 2338831, 57286916, 40883516, 79011602, 100521915, 42588689, 106732661, 20051808, 80010931,
     79098861, 74591024, 114214309, 133799220, 37282497, 8840497, 116101208, 81490497, 105646660, 106149104,
     104109451, 48450099, 55717830, 52481210, 134050830, 69771050, 106149880, 3171620, 77262273, 78078861,
     15235050, 4957652, 77016211, 71074909, 1930212, 13545594, 121092400, 44566347, 45190740, 125209514,
     49438410, 100701701, 73938289, 4625348, 85558973, 49681737, 78212303, 9953961, 65085560, 120289257,
     85141719, 11242256, 113701509, 72422300, 59889211, 44893528, 67119517, 123360110, 108762922, 73025858,
     457154, 123828511, 21570197, 122118956, 43624779, 48432633, 28714190, 19615058, 120260419, 77873629,
     19893244, 79132724, 14480316, 54220807, 42573992, 116339192, 68268606, 56486737, 110257294, 48322711,
     133634026, 45824105, 114336013, 34866242, 81716799, 49457184, 5046841, 95421304, 8518059, 103018718,
     84655963, 33104574, 110042740, 106089455, 35636471, 101280393, 130086373, 53290995, 73871733, 38098493,
     77010266, 105472506, 83030028, 11204564, 10054813, 95107102, 22869108, 121386449, 125653602, 127828609,
     35875756, 55539034, 11179403, 16948474, 37906970, 73931854, 97461690, 86048293, 35273569, 31521238,
     28263793, 13264179, 37195678, 96865539, 64481098, 6323885, 98992163, 68739390, 40442883, 105682990,
     117240476, 108822949, 130980721, 27368093, 110329169, 72969658, 10083165, 73915410, 42340132, 45589116,
     124256865, 39734654, 115344621, 69279698, 17884954, 4731401, 59354346, 109270828, 48847524, 107247517,
     100323680, 5004765, 3853342, 132779289, 42342601, 56035361, 100633713, 21986479, 119033699, 74759368,
     5452775, 94875629, 78967460, 94229224, 89068031, 84480653, 117160918, 70580306, 56986086, 24745822,
     130600517, 121223420, 26498040, 31251125, 15403177, 78845100, 17454411, 130698575, 78748732, 67946446,
     16433685, 96844117, 35782018, 61516464, 26347161, 104878921, 7421390, 48493730, 129168895, 61219733,
     44952922, 124427757, 129388005, 82476242, 97070826, 47604360, 29496927, 124233819, 125164296, 85281924,
     1255204, 1872322, 131755479, 65597783, 4330450, 22063986, 33999141, 120619480, 74082441, 5350946,
     1231818, 30882092, 102637882, 119100659, 11362093, 70370835, 109667473, 23262024, 4711626, 126949919,
     70888128, 26877373, 28110154, 59457085, 38757257, 32617654, 65831703, 67899883, 49845508, 43607225,
     52610672, 126761726, 87701954, 9862111, 26204855, 79768285, 24360683, 25169352, 91857808, 83625456,
     39857679, 128234232, 125219125, 78015507, 57208976, 82364479, 63622037, 48785103, 3109857, 65409677,
     2772337, 124827218, 14061700, 88470715, 83970381, 77572995, 89193506, 83183616, 127801792, 113537730,
     58045064, 111040343, 94981935, 78141170, 46117498, 45485100, 9940424, 86829098, 56396336, 26211855,
     94170423, 69017659, 107941094, 66348714, 127773074, 113008848, 111692360, 81597088, 75647042, 88641872,
     73868871, 126142891, 67255857, 114772679, 64103261, 80526255, 91334029, 99104074, 77269990, 121496220,
     115046312, 103080084, 60407930, 81030306, 63240026, 22196399, 111679793, 36006242, 90682364, 109978128,
     70390621, 40469536, 75624509, 102668976, 108139766, 53207181, 81521432, 72438658, 34782578, 34277231,
     41640139, 1968649, 81148704, 101652909, 6153626, 104946917, 61414859, 61409588, 119709712, 47719394,
     31157813, 68180559, 59613615, 28071318, 93885916, 63887548, 124219014, 45042318, 93452209, 132674065,
     83997531, 19439444, 51525509, 115740029, 58701369, 7281341, 86160659, 14927990, 47824445, 116974858,
     105343640, 122878067, 1099326, 34333475, 100853565, 72626167, 99595830, 7251766, 41129688, 50833291,
     2008002, 43550686, 45386902, 41449581, 79079181, 117837997, 105622247, 110599593, 116818576, 6676191,
     27992873, 96178666, 10970532, 44109462, 16090842, 90124771, 132747815, 110192338, 86629045, 8894652,
     17228837, 104831020, 92712943, 39498761, 128778937, 54983769, 81528822, 45738734, 31215298, 3651610,
     129169735, 86443072, 94026682, 92561765, 24559730, 101405267, 102840029, 101571402, 67669174, 100641859,
     77046745, 86002441, 49095131, 40602903, 39426662, 50736408, 56430041, 124438555, 70652510, 130599765,
     61933832, 108808001, 116268206, 115148613, 9959698, 126201982, 26707893, 54721796, 125829821, 31085760,
     81585329, 5667122, 82883445, 32314038, 84523606, 30139219, 32681363, 95717399, 52972948, 50916900,
     28205642, 83466506, 20398844, 96648408, 132810088, 40165273, 99833039, 96473053, 117995804, 48331573,
     196391, 95652607, 94552494, 92265444, 41240016, 59629183, 66828446, 22934643, 90630712, 19647653,
     4185832, 133153159, 49762473, 58652127, 74342592, 45888181, 117357057, 107534311, 68881467, 65725719,
     42625300, 126037911, 81035394, 14967604, 78331066, 86680607, 39230333, 108770166, 73558254, 88942095,
     37060585, 57651031, 1515718, 113009712, 41704867, 100965830, 11600551, 85725320, 66020526, 15430474,
     67263067, 29604097, 116799210, 81286121, 100382328, 86347156, 100579808, 130655883, 132827825, 124408244,
     35524475, 58622729, 50027723, 105283018, 30944854, 7275982, 13755547, 80117210, 69152883, 69011465,
     68629336, 21886060, 17411385, 39199256, 123821359, 6486081, 131332506, 118685936, 9167854, 29292435,
     425604, 90252902, 8294292, 56766210, 98211194, 96075109, 114423485, 2823837, 8880730, 7383785,
     1202898, 4680914, 72201976, 45517241, 44655765, 105380941, 2514958, 82076596, 1181014, 75031609,
     28368174, 62942557, 26858281, 35737167, 39642969, 78075876, 73909106, 69996757, 33739611, 119291533,
     31342061, 24518241, 28286232, 52539882, 119051262, 8022385, 32023186, 130217249, 74535152, 94026337,
     60751427, 4744178, 44480420, 43847085, 54594425, 16072239, 2146308, 75503703, 24836701, 67862281,
     85918011, 12573098, 102205102, 24810318, 29309101, 30184627, 23693402, 40827086, 121560001, 108184452,
     13123839, 7891534, 106684362, 42125451, 117850131, 97505936, 19635896, 8431414, 111799930, 59481962,
     20140268, 30995991, 5785718, 100342676, 38417597, 129088531, 46214286, 7826402, 79126746, 11981137,
     59394265, 26874325, 106496002, 30575865, 89223501, 24845342, 15997945, 7710709, 27161346, 7253773,
     100148292, 97759191, 15560551, 11733774, 127860554, 105532398, 108925728, 99649886, 29505966, 125949396,
     38401223, 95837966, 33839632, 70760648, 56753167, 116922625, 33371847, 96984490, 4330267, 97164910,
     33791619, 102671635, 26145445, 43723491, 46966029, 47947636, 60970383, 102602342, 117348198, 123802278,
     88524103, 116400390, 82608626, 51331457, 116035120, 91121605, 51879641, 11996188, 57189354, 125055317,
     32815576, 111670954, 111427835, 65678926, 117757359, 46131313, 122249391, 23974074, 81191860, 87124852,
     15279110, 32174285, 9699736, 103739113, 107043269, 58598438, 118845240, 37167418, 71439920, 40776886,
     123583311, 130401270, 124926222, 44968050, 101300974, 111614348, 49733651, 54929513, 61249178, 48904676,
     47229081, 42398134, 53156911, 128594323, 63258877, 68617139, 2296515, 49699301, 17091909, 40591124,
     22550680, 40562313, 76076643, 17013077, 116985428, 73622331, 95481929, 97554401, 20064900, 22405094,
     61429297, 86556300, 84195344, 20432936, 18145034, 21624459, 10695656, 109072730, 82146393, 34075605,
     31598661, 47775148, 86578139, 42307133, 23024126, 37216217, 114877646, 63493792, 41572642, 10370029,
     57493345, 20672119, 73815221, 47413996, 118963609, 60354973, 122994096, 14418149, 113386120, 20912035,
     91874177, 42391688, 9286227, 91953563, 25070454, 64368300, 71753670, 4694008, 132221578, 6291208,
     97461734, 128180363, 25724655, 87170675, 47781136, 98700462, 129179845, 49134855, 68148513, 125412100,
     116812134, 47687841, 115158153, 114261380, 104926881, 67592384, 84160099, 108750215, 89367997, 50268376,
     45912809, 87804004, 16161852, 24781170, 127313678, 50392049, 4379566, 131138693, 36357563, 118816523,
     82395721, 95509774, 129510943, 107152654, 28208256, 8372363, 33147686, 112439854, 113804278, 40856479,
     43898062, 75609534, 54083745, 32795008, 48283509, 103674925, 6637525, 31105365, 126409199, 38994877,
     93647785, 76296839, 916157, 26217415, 13038497, 130972890, 18180347, 29898258, 49511141, 67935399,
     119496999, 35774302, 18905862, 21793122, 30611911, 10119584, 41801258, 76961078, 68544242, 68352068,
     120942209, 119402080, 72404723, 80566524, 121273029, 115880514, 72736214, 105933587, 57998718, 115791803,
     116965862, 58969575, 77958388, 68685927, 63750332, 24545839, 68780027, 115986609, 47731847, 26235155,
     58129879, 107973197, 9953397, 37167995, 27543674, 30727710, 102407660, 19099442, 17929393, 103684524,
     27950639, 2845345, 21957161, 65191805, 48705169, 24689014, 6615345, 105139333, 48362598, 11067621,
     81831801, 31852961, 90996189, 93427513, 116413323, 28375001, 11687368, 59223663, 86412440, 88045168,
     26348835, 80747435, 45959518, 22146296, 77192554, 92798692, 112468182, 112148502, 90007562, 94866654,
     132244580, 124754308, 2408926, 29201921, 42424914, 119407133, 64473216, 74101367, 4859431, 120964492,
     7029330, 114523921, 49227342, 67103111, 75048979, 46909539, 18188518, 65523950, 9167861, 68608589,
     42793503, 89158264, 99525430, 125265137, 76124668, 89891008, 133788812, 41817167, 81215712, 42647755,
     119506894, 105187458, 76891867, 12025709, 64547998, 45365048, 55773548, 114229054, 9595325, 35174647,
     8446475, 133040844, 88369875, 86678287, 115316223, 43345649, 2556608, 132842438, 24189616, 121932491,
     43951903, 30305324, 42019334, 35231906, 111963933, 109718072, 33876495, 116685400, 41099286, 127792020,
     65442436, 55829207, 127615188, 1608525, 39529128, 21790975, 85054361, 39028280, 6522899, 15543175,
     57906911, 57796935, 124448433, 82271501, 29179592, 37354610, 47843467, 103098790, 87797822, 96502383,
     75905688, 66323836, 77313645, 37756061, 81678562, 34346969, 90648846, 23135623, 43307218, 19168489,
     47206546, 12697169, 53285268, 47896992, 70106889, 99920269, 76101675, 93467300, 117301649, 25805734,
     53128227, 131842518, 60297003, 20139272, 111756987, 64577336, 130335471, 93661767, 32600891, 5067360,
     98036679, 85861463, 33233903, 10602048, 99471485, 9465212, 5171054, 69706581, 68065630, 63307068,
     76501245, 64995988, 93897566, 43924117, 123081758, 69847278, 106715882, 22875834, 75575378, 95057135,
     66729666, 53374706, 1775197, 51809016, 74177530, 97235632, 75460486, 111497087, 99603223, 60469771,
     22199350, 79642481, 79008809, 50081103, 6923298, 112840032, 97428605, 49433203, 110274414, 47366144,
     58757321, 31875925, 92299650, 86554179, 88893817, 73370506, 40748307, 114262656, 11844059, 59305678,
     101736727, 116992369, 47926026, 26203562, 21659563, 18073121, 59351976, 124882242, 111795461, 6048753,
     128068739, 48864624, 76146915, 45258257, 130171920, 108475380, 23276685, 76338188, 65822713, 64194881,
     1124365, 77302795, 31402454, 118706928, 117649936, 81797319, 7971683, 59607117, 87836135, 21947446,
     68389473, 27966802, 132550341, 53730128, 133358238, 62534657, 16554562, 42253611, 35174917, 18565391,
     133065962, 22724153, 44284328, 17668280, 24223427, 108105131, 122376066, 99527028, 82842120, 71170481,
     41360240, 31440912, 74408511, 94837912, 57365604, 62823320, 61469695, 68511335, 74104840, 41754429,
     22787232, 69783320, 82624902, 68086415, 128200577, 41449046, 79462236, 113099857, 105696416, 27746786,
     37921318, 90392690, 20749491, 91566106, 864160, 109176628, 131710390, 45696594, 15980254, 57101697,
     51004729, 95726124, 87875466, 68826828, 98596283, 24013025, 82964351, 119111409, 58997103, 60318380,
     109378559, 71566986, 59372525, 48824248, 112112566, 27705284, 7251091, 11431578, 96906602, 14403825,
     13059136, 72241763, 52017498, 18429234, 59510459, 53306401, 24425894, 63757667, 60256830, 70056852,
     114473547, 79667459, 4886578, 78806499, 26027238, 127084719, 130944896, 79245340, 60393464, 65537048>>)
  @@ (2 :> <<  \* random.seed(2)
     128316747, 115844572, 127215251, 113958270, 7590196, 12292302, 11391326, 48460313, 112138761, 22694018,
     98780219, 108577047, 89889692, 114599711, 41357375, 33766938, 81328449, 28483526, 81443550, 4796195,
     78007882, 91435315, 21257788, 134179985, 57803500, 85694172, 52818946, 107866686, 97041038, 115460008,
     133522421, 68325876, 127425703, 49937087, 73038206, 125589096, 59707318, 67386331, 36002662, 120958063,
     4821681, 116908066, 3683586, 48857189, 62396997, 125070327, 42743665, 121836157, 51004739, 56856101,
     119693954, 118657137, 70565342, 22077262, 75230427, 23815115, 31691947, 30950967, 3202177, 23718954,
     43639945, 23298688, 18347213, 68473414, 68481085, 48276962, 134041039, 68952666, 90527132, 75147206,
     24406620, 133570485, 119933141, 59812467, 106939306, 55656198, 98569726, 70513392, 121680939, 121933863,
     102392756, 48889548, 105998133, 79656283, 47484484, 48571567, 131664446, 115288574, 129104158, 59830097,
     21633837, 128168953, 101200713, 53668769, 95985928, 99131901, 61928958, 87900663, 71183139, 33541247,
     65768555, 37460468, 124128859, 66849210, 67221749, 69174770, 111605327, 106866335, 47502902, 88809937,
     118494244, 61027295, 120755768, 121222318, 61876005, 47080197, 76196084, 97426662, 123524660, 74837503,
     97143161, 61277253, 65311494, 88434088, 29770969, 126244727, 43576099, 109344989, 93894915, 112075346,
     22289495, 117668168, 121861710, 82724570, 35988807, 103748163, 122323062, 64393122, 41548859, 40707799,
     128494913, 107274710, 94785338, 111544037, 67679130, 75455690, 69490927, 68096262, 87431360, 82652379,
     78912603, 54582394, 41855036, 98103747, 27892923, 65619913, 68704935, 49203983, 125380075, 91836040,
     83653223, 118389370, 10116710, 105264259, 110112223, 45829840, 97435264, 1130357, 121823206, 109395432,
     25689639, 133824281, 99963045, 14248141, 7886485, 77096670, 87632087, 6564606, 36654825, 79416672,
     30415955, 91600601, 117506435, 122922093, 14262778, 101249798, 70110330, 18320705, 114614290, 35680602,
     32860791, 110695737, 28250004, 126645292, 118189683, 8104713, 56763045, 120523207, 96228889, 101926160,
     4277931, 7623085, 48634721, 48347706, 23069476, 33487550, 90297049, 3146424, 11127076, 15464979,
     128119165, 9055212, 3401710, 5486092, 97901565, 123296436, 2838016, 50076269, 34318138, 17151298,
     109166577, 125623135, 21088059, 98621446, 24661005, 70208140, 92810945, 259879, 51749776, 79115746,
     5792970, 106590071, 132875758, 33262777, 20323262, 130300886, 4867942, 563192, 46197876, 125958507,
     82576045, 84256020, 99651243, 100351696, 15182025, 38389845, 45260066, 65600394, 4135363, 41390816,
     60217221, 74021523, 102806744, 81222653, 99313960, 6143475, 121067096, 35425719, 101423257, 53935928,
     115755512, 83429085, 94669822, 20596456, 63455391, 128685816, 30269798, 12543136, 88694899, 92260656,
     42453862, 112528335, 13696799, 3248582, 60105632, 105818509, 117408707, 127251055, 17117654, 69563183,
     78511424, 104832048, 52741198, 65353528, 69095648, 44018155, 19304463, 117365788, 128812939, 45775095,
     34775333, 35143220, 81346403, 130282949, 56338635, 87686405, 2420377, 93881785, 74886797, 128714795,
     18866902, 90001213, 7621016, 33952645, 4503843, 17676732, 21631202, 22912411, 12867714, 60852964,
     85238417, 31092217, 68217392, 122996852, 131998584, 95038700, 125376849, 4214615, 133482917, 33119640,
     31202110, 95813670, 59686282, 9871400, 33659224, 10795026, 79354533, 30628917, 83773880, 106244549,
     107402026, 83739713, 95227250, 48295433, 34441515, 91880171, 56776370, 37411464, 70624018, 100754268,
     647571, 20282372, 4764650, 51640642, 54858331, 21506478, 14921651, 68730461, 97142721, 11787182,
     32328422, 13678295, 13391317, 2657751, 24395424, 100741839, 31074817, 14122967, 29172711, 3280295,
     69892051, 89857384, 62331130, 60915752, 41570729, 71878068, 86135402, 51003100, 28514521, 91897081,
     121676782, 102075923, 129267329, 28204582, 97835468, 108190195, 58214774, 57122924, 68652548, 2861874,
     77990741, 79368698, 6876610, 118304477, 56105209, 124672252, 70472968, 78026269, 24323615, 123563032,
     12587849, 89025560, 107730558, 64398035, 49148380, 2614948, 69687144, 128938937, 123674972, 15917011,
     81941310, 49188492, 38866872, 92663207, 132005963, 125150963, 49959423, 41375905, 2557532, 117352868,
     91980841, 55331835, 13577717, 14095078, 41060204, 26627636, 112824990, 104064063, 90271052, 110782500,
     2110180, 108992902, 60589031, 8051825, 55119781, 85536261, 65211420, 62188419, 27950424, 119392293,
     79020024, 82350176, 9903834, 715145, 38166066, 3240280, 50050073, 41046651, 125529872, 97115250,
     10274128, 29415865, 101332252, 65826467, 25818005, 15538167, 76712510, 50116160, 52583951, 96089783,
     62172924, 18745560, 101143863, 46296941, 53021714, 119143960, 16338254, 34113083, 16343706, 16503215,
     10805965, 82750794, 114094581, 44893573, 86032435, 52493141, 128804534, 28455484, 92966251, 14146692,
     3310986, 82970980, 88470912, 63132594, 104315620, 5795582, 97108979, 94731349, 66833653, 39024186,
     47994194, 128795273, 61342295, 18987310, 107202663, 50319904, 36096850, 64988432, 70639292, 116204825,
     64096956, 96575939, 128137241, 97698900, 107958026, 56232659, 125098151, 66051436, 112206768, 91298063,
     39830945, 52971955, 31088498, 20991588, 65604212, 80068346, 34816795, 73626624, 57398725, 93364338,
     91152656, 93845587, 123289751, 11316016, 78638244, 97683780, 109770405, 77275999, 12877830, 9550915,
     47789192, 23640357, 133915472, 73184116, 19663037, 108220348, 55937659, 120555007, 8971031, 107182320,
     11562770, 122321484, 120192022, 91449887, 132692615, 108690933, 86984104, 5042803, 17248991, 130716613,
     39779788, 52424647, 31098199, 95080262, 90024168, 118803710, 91415561, 44213286, 58900891, 23156656,
     70329387, 38518921, 15041816, 20940400, 72597462, 132430793, 127498616, 130038026, 101438712, 56869378,
     12905633, 44136645, 69323639, 33366657, 96014640, 69010186, 34528922, 22758751, 120110995, 21140791,
     61866448, 127155983, 94386095, 31466950, 54245891, 117369135, 133564495, 48124197, 105067749, 102587671,
     76965867, 97834586, 19430032, 62633938, 59214614, 96484895, 3943975, 108680364, 79881583, 51439125,
     118355543, 98885347, 24216165, 52728306, 68474060, 7190357, 64754460, 36768965, 54346728, 34053924,
     95356337, 98146375, 125717708, 55317233, 94676183, 86963488, 63417766, 48332711, 129114422, 73494664,
     44389493, 95732078, 100074449, 122402348, 88380364, 10927129, 102221412, 110015590, 114363332, 97413782,
     30198838, 71518520, 83382633, 25216248, 54052684, 109560629, 89519450, 51345747, 131162135, 118237337,
     85205553, 122805179, 1557703, 42001284, 62350685, 70272816, 95506178, 121696988, 118543907, 62586747,
     87252936, 23806038, 109531048, 12674165, 2300142, 54079232, 126598129, 29061788, 97906951, 76405792,
     81395529, 51779272, 121510400, 28923814, 118739702, 130538665, 13483161, 52342786, 109470826, 74856358,
     102945096, 107587846, 26781543, 36830654, 99890965, 123666493, 78682115, 77876171, 25701946, 65740331,
     107936473, 82131300, 18505018, 1138743, 82184696, 91093023, 58303910, 64700491, 34049844, 68912913,
     75979934, 23295744, 62691339, 95658821, 27514297, 130511419, 129759120, 102026873, 9774455, 47008097,
     407657, 121557950, 65152389, 71560357, 112365940, 89803477, 88369229, 8783837, 101290037, 79398042,
     65095658, 124142639, 90570438, 123782242, 44948260, 61646964, 35828786, 117778994, 67498190, 61783196,
     3694720, 132484561, 10711727, 82340400, 101194763, 46658947, 23313570, 101955031, 100697618, 125965720,
     105277161, 133912957, 54289856, 34264830, 90596051, 83903803, 105686030, 111862030, 115967351, 96578189,
     18101979, 7258420, 21819795, 67039418, 51225996, 133183679, 62365165, 90687900, 39569919, 20917579,
     1395896, 37937288, 74815870, 62732291, 129776968, 244264, 49185386, 4565717, 72209059, 114089617,
     51315350, 75739904, 59431674, 27436135, 116835687, 90787232, 41396833, 66877730, 87116062, 17902538,
     64932729, 92560260, 72285530, 95443222, 122769375, 40628809, 10296380, 34625855, 110645126, 42020722,
     40824913, 44789403, 86746027, 127292327, 106815968, 41899123, 87699130, 86271180, 52743079, 69536152,
     112837483, 123546953, 12475376, 68244272, 85002020, 28267929, 52496017, 80019574, 71197939, 113837296,
     114211379, 20070693, 107087611, 67735706, 84401499, 11963794, 41349701, 5499049, 31261163, 127450661,
     61409739, 75336803, 31153219, 70146528, 37243612, 8223493, 128547652, 15020693, 15027830, 90647641,
     109872829, 105681501, 50897254, 114970523, 48936237, 28684559, 42733785, 47792568, 10386514, 44924486,
     61388531, 48680811, 22346873, 66784548, 59325439, 116689650, 39189853, 61882636, 120067583, 17966295,
     123714177, 96433520, 59323763, 132973090, 85848373, 28978157, 124774465, 36646035, 43785399, 21338582,
     13361963, 119147401, 31922596, 62933375, 25440460, 100975662, 91062789, 113577407, 50169020, 24875164,
     47794653, 18823303, 106716198, 18170532, 31295827, 36055660, 108519914, 73900252, 84947294, 50735155,
     53722003, 108514119, 110530864, 100585048, 45936453, 37680871, 117921187, 96646048, 124275673, 79872638,
     67458678, 77961379, 92607991, 98262873, 127343379, 43015004, 99664703, 53609878, 100798459, 95807400,
     116676833, 94557469, 125570199, 84844961, 101137663, 130127378, 131408441, 96148848, 39138690, 71395701,
     83548683, 85495798, 90014184, 9753479, 49316193, 41417660, 53039864, 64961363, 23457799, 34617700,
     128541968, 120975021, 47513548, 59154414, 63972734, 11770556, 119932272, 123952122, 25024907, 42262376,
     128938877, 50870409, 17053131, 129921411, 3762059, 13994797, 47080895, 22425851, 48207625, 10339730,
     123164135, 117897343, 118540325, 98291816, 102214978, 87477202, 58576361, 1125547, 72838136, 43002345,
     31778697, 110739132, 111874461, 79811904, 52332983, 72631618, 38205522, 62934357, 85604873, 120889923,
     20210316, 48294427, 42459848, 27129339, 124309444, 66901013, 12756778, 130287307, 19085754, 105210545,
     27426804, 44470564, 33685969, 18974018, 56424804, 48373681, 33578085, 11964367, 45995060, 25167893,
     33082172, 94937196, 32224123, 97715412, 81953983, 6288416, 45158639, 126177565, 50034896, 86969643,
     103054594, 82067597, 8279668, 115735532, 19333042, 23820049, 114195611, 8463971, 57683743, 59539238,
     104529236, 36495413, 17823234, 43080952, 70194541, 77415610, 113464176, 15624934, 45371193, 86999697,
     103103188, 95373942, 81923288, 128498124, 52958772, 30568802, 133862216, 7266657, 52653988, 102887961,
     63591470, 65745359, 83145963, 116953438, 42525383, 73099162, 112426000, 83420422, 80199932, 12153079,
     78920103, 68508428, 72287842, 89211515, 132195550, 66533081, 132731951, 53860918, 112849105, 92818129,
     61012185, 22736879, 55269488, 51807510, 70433006, 60753131, 6195135, 117957430, 14529650, 60576662,
     133581220, 79368220, 17208124, 15898439, 125813607, 123655793, 91231701, 67109478, 122821338, 23500745,
     10379929, 52696274, 41045169, 61430502, 107096048, 94936255, 1187216, 33949903, 14221707, 89750666,
     47062266, 29607026, 23238220, 3347406, 19711244, 57351890, 89894250, 131982226, 12337686, 45098662,
     130393105, 110021560, 87155819, 62468647, 6679563, 115188808, 120624201, 63732853, 32417142, 8673279,
     64621006, 18723043, 74996381, 4076601, 18607079, 93382320, 67398627, 72766748, 8094513, 6488639,
     26790803, 73303759, 123288853, 835590, 110333493, 109285393, 70180424, 45310116, 91515783, 70930769,
     117508043, 32008918, 18785945, 49864763, 66048935, 202377, 17685000, 72495551, 15639115, 33111520,
     14527116, 62595071, 28425419, 107098209, 7134554, 82682992, 28885936, 84070797, 50886192, 45196613,
     83575753, 86920225, 115240108, 52859909, 121357633, 125489245, 96312600, 70396855, 68060157, 104817031,
     123075960, 90653708, 21877053, 68581412, 14152647, 111845594, 109764446, 20319070, 84172202, 128469788,
     28227938, 23282833, 50640372, 27097523, 39915521, 45719696, 57829496, 19290196, 57408911, 17502215,
     53439571, 42102772, 107070835, 40170756, 108918338, 13329755, 75492473, 13416026, 63455442, 36557107,
     38179473, 70784029, 102724140, 65621873, 132457657, 37562280, 30749681, 56461817, 94367012, 18470240,
     93825703, 73421479, 88346077, 13956283, 4109088, 80793101, 74051242, 100900212, 27113789, 28499813,
     26084380, 52542635, 77817144, 5248379, 86582719, 18535240, 83944123, 3155957, 99616225, 35233598,
     94307230, 96880883, 63773619, 72434581, 6414472, 98853661, 103645965, 115595609, 110472171, 30136113,
     112135653, 19389984, 80275320, 41947775, 5123000, 92480557, 26291197, 133834197, 14541645, 18846579,
     85340795, 93129676, 73052217, 123073840, 25028453, 102391950, 128288402, 12385868, 131261745, 92175750,
     120698507, 116523671, 62261118, 84500546, 39164045, 129238317, 28033505, 21146243, 110611091, 43530065,
     94077962, 110059044, 37224205, 114058184, 121125864, 69576974, 76360871, 9063599, 55389875, 120533620,
     55761629, 89626233, 96698556, 4523203, 61117332, 39918731, 88483705, 115707283, 16379137, 85423488,
     94263136, 98551759, 36539543, 126739280, 122203071, 2113684, 28775486, 56181802, 44724093, 35094726,
     72210730, 97696133, 52667343, 79662641, 70525601, 100356186, 123991229, 119696847, 26998848, 57675954,
     103640432, 17280842, 93052910, 22926004, 105526902, 117369203, 60085299, 116963325, 61003928, 130257174,
     46419180, 51386519, 63517538, 82233330, 34169002, 82565034, 25615063, 77955807, 63901809, 59719046,
     25787296, 101374792, 62994895, 114089443, 76948104, 45332857, 41535237, 9498102, 22874033, 49589199,
     81211567, 84058480, 115451111, 63262705, 29830161, 103151644, 82636340, 87782522, 88407155, 77429562,
     118761793, 17191638, 91556970, 125371943, 41315000, 116656224, 27824159, 71845871, 112321817, 110496599,
     40154214, 13167784, 1694580, 105891680, 116830057, 3898796, 26562564, 133045656, 42021287, 7860331,
     42806870, 71586392, 34346452, 106352891, 97192876, 89193993, 46015168, 110412831, 59132281, 9663192,
     56284464, 63168190, 111869336, 95520727, 2450288, 37933421, 77818984, 77072217, 17697182, 28486018,
     20204012, 21780505, 81452809, 103506889, 50425812, 96783458, 8704281, 84981770, 78945707, 60023078,
     122724747, 37470842, 86584968, 11040947, 66508565, 64263640, 107479848, 105825873, 122927062, 31886702,
     20303293, 75820868, 40173353, 113952006, 129491702, 114923184, 124280553, 30486005, 27234565, 82985855,
     94441275, 123857017, 117347403, 44950317, 79366009, 82647221, 94251316, 52600201, 70327880, 54594479,
     31498329, 86448558, 28596263, 75318104, 8307363, 35094694, 89341001, 33476216, 18569844, 126596611,
     83409805, 98270561, 52511122, 110660863, 58534517, 16025599, 130250964, 61174509, 52587767, 53017774,
     63721656, 128989954, 50993088, 38228812, 28871926, 32293991, 30075230, 7376731, 71484751, 70448526,
     109711936, 118933921, 12147009, 80920824, 126921717, 72951713, 90532722, 480868, 7224137, 51974764,
     94899331, 57794995, 53892107, 31060151, 69079222, 36611207, 13553046, 48916239, 68490371, 48481866,
     69783199, 126438835, 105019166, 66137766, 77964585, 9434166, 94599623, 61766435, 98587880, 94295367,
     29680468, 37535459, 3323762, 3942244, 64228047, 5603479, 17357936, 87094208, 19029548, 27714987,
     43175073, 32378793, 72168087, 6520637, 82643921, 19442474, 86753407, 39636109, 126520005, 102277253,
     13701612, 86098865, 74887471, 72594898, 11623395, 91042508, 89928627, 18306010, 58705494, 94926709,
     18812505, 4548793, 41679047, 68648361, 88654274, 36011630, 63514371, 6313149, 126755758, 74664686,
     47671079, 102510374, 45643091, 92117875, 123826714, 13062457, 81332391, 48259096, 14367141, 81749262,
     105254302, 46722363, 48776415, 106705078, 127169007, 126235516, 85344988, 36982437, 108032177, 64179083,
     120252548, 37985641, 68361626, 80559011, 129822689, 20106596, 3432977, 5947465, 45686683, 58258187,
     112445431, 84990080, 1103023, 46900223, 90256474, 130857764, 134108252, 71740205, 96010756, 6804307,
     115716687, 88887580, 10298304, 92663865, 72520342, 67997523, 81821550, 103360195, 58457635, 57527542,
     56292400, 32194609, 106110151, 24409967, 21823209, 82371142, 6037713, 2133887, 79601049, 101991261,
     129717446, 96565363, 111015605, 47387494, 90350176, 24347885, 39562319, 2668498, 121379877, 116706655,
     5397095, 129973121, 33102053, 75956656, 105773316, 125320753, 120084352, 29472398, 54068547, 8496915,
     122027634, 48339716, 14879372, 124736309, 80121203, 122497914, 9072932, 32566352, 31320518, 73840777,
     25490623, 13817085, 842916, 92900532, 54399527, 10736586, 67135691, 114472410, 37717685, 78115325,
     87462157, 29695796, 7036865, 70541236, 69449451, 133719858, 70832199, 123610888, 54108884, 57321101,
     122784190, 105067414, 16996086, 20775901, 57296267, 17397597, 61714114, 98678162, 50036862, 7086193,
     130686779, 128600470, 76753280, 24521931, 69310772, 109796782, 59053712, 126972792, 58715952, 80429116,
     127640717, 110236532, 107261311, 116567491, 86914574, 59851818, 21795983, 66518333, 79795112, 132980730,
     17157889, 114448686, 47104341, 19546370, 3091409, 33730640, 94647295, 25120714, 131192020, 20259485,
     85609135, 55322987, 76473885, 84584743, 33609511, 131647961, 59375385, 63086883, 62334271, 25250445,
     56772623, 58433940, 36160291, 103995129, 29442735, 47407509, 100753703, 84887767, 127836558, 4215808,
     110227704, 52970897, 83421800, 112171590, 3745452, 57247404, 40566941, 124992407, 112742272, 3236106,
     130555835, 122141778, 73531335, 64058668, 76359078, 35123151, 92123767, 36314423, 33168916, 62590970,
     95579946, 61341675, 48994930, 70055673, 113690426, 83034834, 61971563, 121790778, 89039527, 33050316,
     74637799, 113762215, 71765072, 21411122, 61857182, 38667853, 127802726, 125614338, 101307840, 48539015,
     56347349, 14728597, 67830514, 91878436, 120506880, 32975861, 100263158, 130216820, 87653548, 88599135,
     128693284, 51920297, 15726083, 58069906, 80262111, 61936302, 83782281, 69965746, 61018111, 12100254,
     129278159, 99576830, 129851910, 111806970, 52420415, 60739765, 82717354, 126364105, 102773639, 95476682,
     93430746, 99203140, 48686689, 122577523, 107134678, 74761865, 46814961, 22222588, 19717333, 31329958,
     89197032, 120304283, 87139838, 23340124, 54828179, 60552468, 66954050, 95066398, 132597402, 96910721,
     108456903, 23171331, 54626565, 35430032, 122367650, 41955569, 76550044, 123004150, 54347704, 40156706,
     86817876, 95883132, 105170066, 130148460, 120297123, 35505282, 89966780, 42082754, 89578379, 1546156,
     53798685, 79499645, 5405452, 27656801, 61032467, 13602066, 15342158, 1434123, 126470045, 112349327,
     48647321, 43287433, 81203444, 42523601, 98403150, 54494994, 23975444, 100348035, 111872177, 124127370,
     43707918, 105076718, 10797655, 70716846, 80499928, 64452252, 54001435, 83217637, 123361178, 31589052,
     59683805, 118792840, 12676727, 80967499, 2474998, 46247339, 4077416, 40667351, 66231826, 18790099,
     95853441, 94913546, 6878728, 1262939, 44267945, 54465115, 64210592, 87425381, 120471228, 82329768,
     130270045, 667970, 117453893, 64715442, 85749068, 121674981, 77187706, 27322801, 29924028, 99440581,
     82177236, 43968461, 22271993, 44825748, 40694752, 104820152, 111426901, 52523156, 76252528, 80269761,
     97469202, 65198784, 62462182, 102364604, 37498828, 11527619, 67604655, 28664578, 76930847, 49254614,
     32445957, 48544719, 113471329, 49898742, 131687829, 107551332, 24321154, 120087739, 32502668, 72359482,
     108899805, 87084164, 96883730, 83831371, 30193880, 28121127, 78647227, 62872052, 31963268, 53409767,
     115806949, 35673298, 78845059, 27317588, 68561060, 115851243, 21693582, 209161, 54457449, 102961351,
     63478101, 99285760, 48557809, 87158675, 24143316, 90851024, 26597494, 97526776, 93982091, 81491764,
     124145111, 24454340, 113273809, 65026760, 82571058, 890315, 106166273, 98550602, 17931171, 123167937,
     28182772, 133314917, 94453471, 29167141, 194550, 83371704, 11263679, 61267131, 104530758, 85707001,
     26431565, 99477019, 24814956, 36638659, 53075905, 82791218, 112316432, 2919886, 1396023, 48262384,
     117773261, 15546525, 40916473, 4788180, 76642155, 48995739, 63431279, 51061981, 16334519, 10217759,
     128624422, 62111034, 23601982, 19179013, 108037147, 118086237, 117971542, 103391286, 60924453, 122188060,
     128873754, 86000061, 8439711, 35826317, 19835446, 116778261, 64928214, 72175477, 10027636, 122385249,
     108421272, 120345078, 70676066, 94954697, 107223896, 39239281, 38451073, 122913571, 3653105, 73411645,
     119497246, 75200954, 27970726, 10441661, 55968752, 122305883, 16865416, 25009593, 78765893, 41360643,
     62268307, 124163263, 26584166, 115054867, 5253063, 93459824, 45323701, 61642037, 105163023, 8381270,
     20664698, 131940454, 30652520, 114549967, 83031363, 47101443, 85238226, 41161714, 107960530, 93859220,
     86576179, 14509553, 114059985, 25556604, 20855027, 109257890, 123753743, 29842918, 3867857, 43377472,
     15969052, 36605901, 13907193, 50064385, 104022166, 9616515, 67729120, 108740215, 123669694, 114326708,
     130843744, 128523633, 127807589, 96315216, 82426870, 18210513, 47156903, 17616053, 128464487, 56868684,
     98325695, 99739524, 26307129, 41639289, 74240808, 102134630, 2730124, 100973282, 2344582, 45696251,
     85739056, 20081120, 96553809, 9880745, 115574535, 73045499, 101096253, 6422172, 18373254, 130441297,
     99050981, 66201904, 131694733, 55994448, 90841798, 48054451, 64508832, 88942874, 39584362, 39871212,
     8550064, 119523533, 83935112, 20201095, 129090378, 99196665, 15417354, 926836, 110174176, 12079033,
     120491887, 19156695, 47278302, 119467287, 113528463, 95601233, 20906903, 127308160, 40353383, 104164890,
     76026608, 91050832, 118044824, 123747886, 71907791, 17323845, 11986835, 133158932, 124808687, 30695345,
     76718468, 97450500, 104544273, 100068705, 30841413, 108051499, 44935519, 132731747, 12107508, 117448021,
     25065474, 89565737, 58660702, 28187934, 55170139, 87171118, 88151217, 5026532, 111881433, 130302884,
     44851132, 57605848, 124218990, 66764545, 87664179, 75195516, 46283565, 124055614, 24800059, 70736475,
     128312582, 15782260, 88150919, 115805121, 5766529, 16811319, 91885668, 127728134, 50729046, 19446051,
     56513851, 102806159, 102750905, 98986671, 29949639, 85024369, 36011341, 82594953, 72514575, 94110674,
     121414301, 16631057, 11557087, 69046683, 111943369, 76560775, 96705931, 83079956, 23797024, 26675671,
     88816887, 131589762, 83366969, 90553984, 95252164, 9706026, 72091287, 127042021, 42101541, 17356312,
     67456861, 31845385, 31911537, 90977334, 61112473, 90357834, 54504052, 61195850, 14318670, 42095331,
     31147768, 6408323, 46221535, 14356855, 52837308, 2448525, 75601275, 15712539, 100228253, 108873671,
     34772178, 47405758, 74448885, 32291040, 45339311, 56785283, 30422050, 5833769, 18766700, 22461590,
     128824110, 17551476, 125133026, 97745982, 111514467, 126188188, 23024592, 52594716, 20267898, 133289395,
     14003444, 86557423, 40327401, 102526546, 57209536, 62213470, 992876, 14828099, 56656554, 197260,
     92507633, 12882814, 111933400, 4408138, 25483835, 58235229, 242722, 25862670, 106696407, 115029669,
     51026604, 109868355, 42104404, 113749638, 20755054, 23405625, 36020547, 114511992, 35736864, 108693150,
     34482363, 76447122, 31248048, 129524398, 69452828, 127053928, 109151016, 41529074, 41470265, 75563164,
     55879065, 66900353, 64903115, 115975028, 113049718, 51851478, 102876015, 39535381, 132257865, 52819129,
     23246087, 87615763, 108106791, 56432946, 39539980, 106092994, 77383138, 61849315, 70748574, 57011302,
     77139337, 92450867, 43199107, 72374076, 9665700, 75604063, 1057141, 34285744, 124483486, 55366463,
     118977607, 78123689, 61744072, 97193050, 12050557, 119766167, 112491505, 113896987, 67334577, 72621041,
     63119356, 70306001, 85759829, 37365621, 21154328, 129603296, 29331951, 49664774, 109353309, 14241391,
     98595412, 29788331, 132037744, 28327030, 58163781, 16911755, 130420314, 68529108, 119327330, 25643500,
     68130198, 52336064, 119741148, 109054362, 21821589, 116196462, 9440853, 41331047, 109267238, 61166979,
     18979336, 101161797, 69177486, 12404796, 98908445, 50144360, 91176172, 24969168, 29538298, 120567509,
     105623763, 74206547, 5714519, 58518454, 75429125, 4204590, 120485647, 52548077, 73337890, 102600972,
     40609125, 31256789, 133847213, 21669620, 97560351, 53488579, 106234583, 29736903, 120274571, 115914469,
     125489635, 26912844, 77047268, 131974571, 110650046, 30721166, 67363095, 120256663, 34234093, 73994290,
     37338372, 81274213, 35136265, 21241586, 3428450, 86702951, 83207284, 128715227, 53724010, 68726418,
     122180861, 96289855, 6858110, 7502209, 105096603, 65848068, 26166692, 74395872, 43470443, 125993686,
     39268347, 98319060, 128487885, 121523432, 86692514, 6223892, 62741277, 45015721, 24730324, 59980247,
     6397009, 27880208, 49313007, 34578602, 130737460, 99817339, 59649744, 35471043, 90657767, 67437177,
     118165886, 33575599, 6382399, 96583718, 43073505, 1509816, 56087546, 87643704, 30352032, 24624901,
     51403192, 92576369, 91469166, 64534083, 18075467, 56638525, 93193533, 134182036, 39810403, 9923579,
     88210922, 130634922, 23310328, 102421186, 105942579, 7320628, 56268782, 120555506, 111720336, 8903161,
     129862069, 71357589, 78016061, 20539291, 2852547, 4077967, 49138923, 28718523, 130982698, 91258445,
     87520094, 75969971, 101810911, 72299887, 63913922, 57803881, 126233232, 89915473, 121731450, 103830695,
     82230633, 92358351, 79150412, 44266610, 13839938, 112721256, 979165, 10334087, 27571407, 3111551,
     96734576, 71119963, 113719860, 128660882, 103313610, 111345924, 119049154, 70740564, 4091374, 20793230,
     3837164, 39636192, 34263263, 16093351, 2428756, 86335608, 78650671, 2660541, 124778742, 46968145,
     120649604, 36953072, 14270010, 51954933, 89142085, 121280123, 90066366, 85165532, 88233585, 25147035,
     55241920, 1197999, 31735283, 29226299, 118942842, 21882852, 121285747, 82983396, 96161378, 58504721,
     72977260, 116595721, 4422654, 77156432, 37126865, 13710249, 32159246, 78596632, 32574685, 6331166,
     28994053, 109916231, 89662655, 31733261, 91252978, 110634892, 23616010, 83801101, 121040785, 109135838,
     74673, 22900292, 128263338, 16555434, 78250624, 26854160, 86608796, 32453687, 37783593, 44314191,
     92797371, 11204262, 117628576, 86879079, 27556528, 85111071, 17687410, 76510768, 105745778, 128667860,
     33456691, 132736271, 14164461, 48291522, 66019727, 92873049, 25075226, 28193110, 28655180, 51931329,
     38078855, 408709, 11342947, 30695728, 109914938, 133442912, 75879483, 41065624, 87681860, 49868812,
     39193598, 72708918, 104047800, 126948364, 128984116, 41927160, 134164659, 88933447, 5701473, 102694303,
     41672823, 130936092, 12016888, 133616735, 63727276, 67240283, 88249865, 18802139, 81637812, 76036007,
     47579569, 38529440, 129330929, 121736191, 83719924, 56678278, 133768372, 79891558, 57117526, 119119807,
     86542718, 109093188, 13314732, 127745344, 71914714, 25039144, 86762339, 81150000, 31260147, 123903699,
     83785363, 85197210, 17751392, 8657378, 61938625, 10890499, 81479787, 19214325, 64398932, 3968878,
     20320797, 50419962, 25526925, 64354334, 50327304, 70164160, 87515884, 18145679, 58114185, 126354391,
     26953356, 14003638, 45356398, 45775023, 41411065, 58667719, 18472171, 33189823, 79058640, 34740994,
     63216596, 108044313, 43691712, 124055724, 213941, 97996817, 122663011, 111191982, 6086700, 1011642,
     15451660, 27787332, 39427269, 7589720, 105939966, 59358320, 125698070, 67420476, 101889251, 29885861,
     27691289, 32531587, 112645258, 10327318, 4357380, 3617020, 15065020, 51908986, 15004408, 55804390,
     75605674, 125782290, 79671781, 56915307, 84118368, 69037468, 127246157, 3269742, 100967178, 117973496,
     99826039, 3579899, 23209999, 16656025, 122200194, 117400553, 123338167, 26831661, 111171131, 30404032,
     10838943, 120532087, 95831158, 37459610, 69716073, 123268615, 72088000, 122046618, 35947097, 15219768,
     103748273, 131683628, 108273319, 24440851, 103302620, 80033586, 40528796, 26447223, 98817418, 81629268,
     11598435, 23695653, 91352908, 129979318, 4090613, 122552173, 824325, 89668143, 13995571, 121547823,
     87616169, 107547090, 132038343, 61756521, 62756882, 2363267, 86492766, 119928177, 78687682, 355824,
     112923975, 120311084, 130142377, 30479543, 109769767, 94056773, 44510017, 90224788, 9647144, 32257639,
     119882779, 93169660, 37446295, 105050532, 101825195, 130930780, 116100172, 15588824, 22556171, 128917396,
     26033832, 11325404, 56721076, 133071682, 113300937, 37165262, 114344703, 66552726, 133268950, 15674482,
     36651917, 79988559, 83599593, 19639083, 117171836, 43464859, 50546354, 29396840, 78783707, 133515790,
     30142796, 26512539, 114982427, 65835826, 59420336, 15155943, 65264771, 52723097, 88040014, 116946979,
     42832044, 95937278, 109098759, 8042076, 61638211, 5626887, 57652496, 61618154, 97400550, 127639871,
     89492902, 127383365, 95250601, 92855402, 117432654, 32081945, 108595750, 74188997, 54703422, 74262511,
     86411887, 100815070, 115929078, 119124740, 7476626, 104904010, 88478875, 108873708, 70794058, 129807373,
     54108541, 36070086, 15978022, 60489944, 38675362, 40691663, 100661406, 127436050, 118690098, 56377732,
     132424264, 32145190, 101265782, 90835229, 118134195, 109498359, 110881146, 102719860, 22124893, 118210431,
     92662427, 32644035, 116654563, 15886899, 100935963, 3881079, 37108651, 71877745, 93957955, 17175877,
     52325704, 118125502, 58065808, 78145405, 98086778, 4291241, 90744981, 92055686, 18254278, 94827984,
     86007262, 5882038, 8012315, 124208466, 27780172, 5032922, 110702782, 121728533, 122529881, 95686837,
     34112539, 72270193, 102597112, 112147743, 24482670, 21075193, 66839823, 133981102, 46768641, 90477552,
     11277362, 94671276, 58139803, 133320574, 74086438, 81844132, 114252072, 21951087, 13798488, 56076390,
     38603749, 32894478, 546404, 84715780, 27995368, 103404667, 35754040, 7783759, 110064799, 30213571,
     125990102, 109170306, 28859301, 91944594, 64735624, 118312127, 70294924, 100644894, 65874707, 60634287,
     128747643, 102027686, 127518316, 2175517, 5170196, 41576778, 54771290, 113455449, 70887971, 83687198,
     87241329, 126850079, 71178667, 29071556, 110081133, 56968989, 13230107, 61005054, 61899065, 70729148,
     111452717, 88376975, 22909904, 74849633, 23308605, 40192452, 82744360, 126666201, 19469725, 96157718,
     73190848, 114293435, 16692726, 69307926, 25078789, 3695575, 44864205, 97472210, 105106630, 7331260,
     82028775, 99853882, 81647627, 36689807, 84256511, 108360881, 53250962, 43471137, 131021361, 80461816,
     79891523, 77460497, 84371572, 17398611, 9030110, 76403183, 33527503, 18875931, 78636618, 122851222,
     128292739, 45660904, 94429516, 43170852, 7292153, 119686089, 108416767, 114146794, 28493770, 117358434,
     79916660, 6599904, 25647939, 48508246, 8244481, 1798678, 103707279, 91775210, 65210310, 53457164,
     81185617, 20102129, 94594788, 6449161, 79707616, 87101258, 55902778, 9164928, 43198701, 21999591,
     71144198, 69221147, 33018615, 14069154, 35214333, 113098577, 108827257, 33825376, 45928999, 66797233,
     96772356, 122450046, 91202541, 37208835, 62465592, 97765871, 105426977, 28431908, 44344997, 73885119,
     486394, 82437619, 113879579, 173946, 100584271, 80690807, 99094896, 79058446, 123488948, 13497774,
     54784723, 127397617, 57207370, 56497677, 82227540, 61548879, 117062676, 75622627, 37729082, 56031298,
     101793120, 121034416, 128462722, 680254, 34129164, 3763003, 2333517, 133255429, 21767554, 81732990,
     86612843, 46866990, 29010582, 28976657, 127271057, 110196069, 12374636, 119110040, 120098312, 73938631,
     47511303, 39525947, 123502788, 121927156, 45496784, 6647914, 14905101, 46072936, 90651805, 97154590,
     40157920, 24243923, 126150484, 88373848, 110421582, 19443913, 34400417, 35281933, 65791816, 68779369,
     73870631, 115432252, 103738582, 72050614, 35423537, 39462098, 75988384, 43698914, 69623103, 102625754,
     78920207, 122377002, 74556032, 62457978, 58022285, 108992973, 51960275, 11240206, 53028480, 10738970,
     133463321, 121741342, 70100758, 20104153, 14292581, 43057465, 52834928, 64918880, 102813075, 117104888,
     91559835, 77880997, 10839059, 99956915, 55464592, 53913925, 60650777, 82944264, 113461403, 130631389,
     35888122, 123296394, 122968923, 132687588, 109222766, 64831715, 2647907, 73456322, 66766146, 111568478,
     71499674, 48338096, 84690779, 56509424, 119123732, 100417910, 27074433, 81357373, 111192734, 11144626,
     1199065, 23152853, 111823029, 90781411, 35137649, 95782197, 3518263, 39180068, 109105108, 129623510,
     130317568, 4463587, 88271793, 56911653, 104438882, 41894136, 53291464, 94360754, 33259033, 110737803,
     89192859, 57828537, 108525691, 67947908, 36037886, 81297326, 50399032, 52686444, 36316049, 65798,
     35541053, 24437271, 116265777, 38626196, 923588, 26704523, 2946320, 26716080, 24695385, 43755586,
     105327834, 37261350, 76513076, 25569204, 101647517, 91088442, 93385909, 45193927, 119213569, 52207290,
     78744015, 16959844, 2929542, 6566528, 13731497, 33357368, 55267158, 88309814, 15894110, 50954063,
     41616572, 18569993, 36862548, 26978269, 131988435, 54502227, 129472878, 4239038, 90320376, 115601298,
     56530960, 111158026, 55433293, 45726130, 9450371, 28244345, 60769791, 127188206, 19250845, 92520616,
     71421775, 85889718, 109570827, 61971469, 53798264, 64291512, 94800168, 36177160, 109317013, 83273008,
     122775014, 30376591, 57308638, 61833361, 31820738, 84561161, 119404185, 110997532, 66996491, 85331501,
     36637419, 28014684, 91721097, 63678903, 115876985, 122181377, 131975130, 112330147, 50549054, 3762923,
     35556749, 71080237, 33579326, 122153171, 40038702, 42310064, 29197769, 76967185, 123423819, 127480776,
     85123965, 56025268, 6734028, 11170781, 12615670, 112481939, 24850987, 123846056, 129969336, 22975919,
     45936159, 38478632, 108222790, 71444521, 30168970, 87940231, 26256895, 102048950, 126479470, 84405743,
     10130936, 13794193, 67215059, 34150514, 71046124, 60804930, 45310197, 67947566, 101488227, 19633149,
     114655200, 25377636, 30774413, 15889341, 40489542, 70442903, 65265000, 101923955, 64376426, 60852697,
     84875450, 93122822, 103929916, 68790249, 45523470, 37776839, 126240727, 20094912, 61247168, 59742030,
     3829041, 118507643, 56625581, 105133395, 71111730, 53487551, 24558939, 123386714, 118058267, 31100060,
     80072674, 43170545, 69805643, 55673012, 38182503, 59619402, 17848184, 120578487, 37013481, 49023567,
     86088848, 56248043, 91646437, 119517549, 91727149, 89350106, 4289881, 21469840, 104418767, 49751840,
     93272042, 109483699, 91525510, 111809215, 70176228, 120864834, 114584178, 75497991, 129181549, 29118564,
     78299366, 77780075, 58020285, 45556691, 72666601, 29279429, 107524614, 36405530, 90855455, 18721816,
     104170846, 92241406, 41488521, 77844862, 80798566, 131116676, 31670723, 85561661, 77465597, 10055405,
     2005116, 91584676, 71636041, 93230394, 97636164, 110040501, 122243952, 103226753, 65110715, 998555,
     117122777, 72984380, 26872440, 133338104, 1569903, 9151955, 74232612, 86859994, 46118959, 22797399,
     53067956, 24130366, 80383086, 79531768, 101433245, 40274819, 115737931, 55581475, 43442936, 20849020,
     78166057, 126577588, 84537407, 1218948, 91966680, 70252574, 78377836, 103152879, 62440335, 123196607,
     108636609, 121547679, 2672239, 51085270, 105515986, 99328652, 22427053, 120723443, 24455152, 33055834,
     90163246, 15897635, 61035695, 28342387, 45947803, 29947123, 10500873, 40940294, 6893834, 12852497,
     35934333, 58251943, 12934783, 129873239, 93487715, 12588858, 26963623, 94711621, 51092523, 26197808,
     56519440, 76101295, 94577805, 33006300, 109578440, 64562437, 84787984, 87480256, 29159100, 9725471,
     18446461, 113261820, 75084348, 10893780, 49149725, 119472781, 97289787, 26026401, 28992191, 47885430,
     92691982, 63910440, 48082766, 108861618, 37603467, 122542984, 24251987, 59968461, 101251020, 85454382,
     67652784, 37108242, 72999915, 79056303, 111718045, 12041627, 3614759, 70520455, 73175433, 19760882,
     44109348, 74651021, 32718931, 31564575, 111193576, 29715882, 32594905, 102739776, 54952338, 95044795,
     58234255, 38701360, 18531486, 92158766, 41606111, 88637434, 502407, 58636478, 67155234, 88578835,
     84287550, 61610243, 134176899, 18854424, 128754294, 41447351, 44559076, 69604577, 129282848, 78305630,
     13989215, 124725032, 19959282, 126260647, 71133917, 93387703, 91627269, 54359761, 79710594, 50011162,
     4876694, 94287277, 54741783, 130554069, 66091582, 125464302, 51869588, 131198516, 102161366, 130589090,
     99890414, 12201079, 11601017, 66878889, 62449723, 63694742, 93515681, 6282991, 105800904, 93639895,
     88991781, 23227037, 131186163, 33454127, 99312398, 47167160, 52821080, 43271703, 112072336, 91216962,
     82185974, 43061364, 80187682, 33678936, 79671608, 88862879, 101015789, 97210454, 95123637, 74497383,
     61509849, 78758363, 105680261, 55696826, 56519836, 94053795, 99429351, 17647047, 122723396, 106932703,
     71105664, 83061882, 19875583, 25617799, 121593413, 99391214, 28550509, 85498335, 28318235, 13963327,
     6118699, 6542853, 56292913, 9971139, 53830860, 73159200, 109832081, 61912001, 23097407, 42070721,
     50634224, 17356388, 103305587, 569006, 3192060, 54223236, 55423322, 80759710, 19949151, 25020954,
     103409429, 75291356, 40153483, 103701293, 18939222, 13793764, 15045054, 25150257, 28049859, 28732797,
     94356379, 26217405, 15553091, 46010280, 5340955, 105010782, 32123185, 45109296, 5639002, 67706601,
     98104562, 120874554, 101784644, 89943745, 71479434, 19998966, 44812606, 131874083, 5239102, 70303790,
     95983836, 38255071, 32541472, 17564895, 73705167, 31882219, 132595416, 99025889, 32217637, 115269735,
     92330462, 132574489, 58765541, 6642388, 71636524, 68093598, 54311518, 40686160, 94211416, 65495443,
     69862598, 126027407, 4351029, 24505239, 110039859, 76782320, 32043795, 10898729, 47089492, 4172602,
     64338246, 104878597, 79729693, 2566578, 101640699, 58118154, 15926521, 30428146, 51404057, 44642091,
     83349282, 93436928, 63175407, 13873307, 32648343, 62226114, 106822104, 9513123, 129308547, 80997077,
     86599860, 69001066, 71779069, 30354402, 20759987, 3427005, 64263781, 58872183, 105342237, 126889831,
     42392749, 82470910, 58723495, 64099497, 60105157, 103054195, 41504817, 17781358, 82715429, 81889496,
     39766458, 78128110, 123703702, 125197388, 112532687, 65923845, 41290714, 118318394, 8937783, 12656789,
     3112544, 114115180, 109189277, 117819249, 56814283, 100262997, 16114048, 42911864, 6382258, 41150604,
     104776900, 2972649, 27662806, 77402963, 123572989, 20237583, 47943134, 86301691, 84269605, 113134953,
     46537153, 131065479, 87952963, 107034942, 18929732, 12386939, 35883031, 82508305, 16434863, 110424800,
     8485842, 19946313, 75556110, 106521299, 133087559, 32741539, 888238, 118546465, 117901967, 110389904,
     38553595, 79422878, 21494780, 95903099, 4206676, 51467187, 46975164, 109165264, 11563417, 41546388,
     66475362, 87493413, 61552064, 106459347, 22444201, 101893008, 118618698, 125704886, 78322405, 7913768,
     101921384, 111754696, 32264680, 53740770, 96863280, 33919662, 93295784, 102136724, 103915009, 45431639,
     24906667, 75945679, 127428211, 76478540, 61230101, 46109957, 10785503, 38329202, 123739203, 132735674,
     41042828, 123434970, 120227118, 117112661, 27883717, 9928946, 9733796, 46097921, 68901945, 63971717,
     73642194, 1608161, 90449180, 17375526, 86031277, 48733101, 48558911, 38804643, 101987690, 63774138,
     69122577, 1194792, 19421319, 90154327, 78397460, 131972496, 47265365, 94554833, 73197150, 79265973,
     21242180, 36317135, 33899459, 122653797, 35531460, 19777844, 89072805, 104236426, 3164421, 110600892,
     55873442, 16933376, 53924354, 51752391, 117265156, 100503102, 16483330, 131617303, 69066833, 84346135,
     108755696, 47028730, 54783474, 42507522, 128319337, 129756146, 34109435, 42512274, 66442568, 4858266,
     40985923, 53048392, 37785920, 9178250, 9441192, 108690577, 104282682, 121430220, 87794893, 109985112,
     112257161, 97571422, 64002418, 18628054, 24450930, 110508598, 88630374, 16208812, 125405209, 54972800,
     74758711, 116624600, 35310337, 126508628, 70172529, 113934460, 114580948, 50631802, 109961772, 2926207,
     84153757, 59113567, 99532434, 104958127, 4274912, 119597455, 18421198, 26845118, 1481389, 17091476,
     60450407, 96561001, 65722205, 113962403, 2344541, 32883565, 110022232, 97449942, 73449886, 98360513,
     98175916, 97317232, 129654166, 113292818, 102593970, 86040869, 100243393, 32715057, 85662105, 124428274,
     70463085, 84525504, 103058218, 8395006, 105044741, 94377138, 40069429, 79505225, 108018803, 111411716,
     20022692, 27676110, 71442622, 114094092, 123523744, 62426668, 29303060, 112977852, 119587943, 38580809,
     64966184, 127600474, 97929781, 10455455, 20318885, 65797145, 6870256, 33545956, 33693352, 36548253,
     79933026, 2357397, 119777170, 6559499, 75774782, 46055619, 70092677, 35087771, 50975408, 59035502,
     67230052, 102604827, 95801297, 84718049, 116370643, 1844273, 46487456, 82637403, 90447214, 128784557,
     46540087, 29593778, 33987155, 1929014, 7374492, 46270986, 54311744, 2248903, 81751991, 132770267,
     68340540, 32007520, 60147039, 16099572, 103318918, 86322237, 60831596, 2287006, 92750850, 118235558,
     74603712, 109735202, 127475930, 60674895, 44680396, 21207304, 59323881, 42494490, 103050623, 82335499,
     39722377, 93241334, 106649741, 79883339, 43529329, 36197739, 20640060, 96346683, 73271638, 112727500,
     75267986, 54061760, 40996977, 6856364, 36656295, 86880353, 133896746, 42642411, 67640408, 121088517,
     95313672, 74791051, 56356286, 120567558, 73839342, 107432106, 38371933, 88459530, 22681721, 10540597,
     111795414, 123320881, 91492185, 18384142, 40834076, 75776068, 54512728, 49067542, 75142419, 66350393,
     8719986, 101493684, 82526783, 132637204, 133544134, 35137083, 91944217, 117274637, 62547251, 38549646,
     16186210, 90583506, 72333504, 107003433, 78054239, 104145805, 93625875, 129727203, 118450982, 112310038>>)
  @@ (5 :> <<  \* random.seed(5)
     83604450, 34285249, 99560964, 48121821, 106729073, 92670206, 126493535, 112945689, 99307505, 87514212,
     123792365, 71140745, 3893015, 112789615, 62494814, 104147395, 126615195, 33427281, 87103890, 6959625,
     120916817, 21052228, 15194247, 49901259, 62957381, 116560776, 33094445, 51104462, 72982347, 13686772,
     77033082, 33464602, 1760156, 98137817, 29088981, 54781107, 37511488, 24437781, 122989793, 116428388,
     102773930, 52269391, 21421714, 102263899, 106991258, 9654514, 18625047, 82936648, 82873074, 59704835,
     17005283, 17749067, 238217, 130504901, 116957965, 713117, 28112759, 103829989, 28921392, 128866077,
     131858329, 22260874, 117092588, 22345168, 38829882, 42097573, 129047391, 26694473, 72373348, 117590692,
     90976866, 83984085, 27485041, 24383155, 126295660, 129997489, 92696392, 26424657, 129730065, 129533044,
     119955977, 51435386, 40102767, 2895104, 48478092, 55687836, 22274244, 125599964, 19555779, 35408239,
     8742904, 44540755, 40447733, 109709612, 80948053, 78670548, 454074, 79990940, 90990794, 94982685,
     45351749, 8861383, 41601849, 47694451, 109859636, 41079249, 64524526, 93471884, 42385033, 24799844,
     64588038, 63423023, 94579090, 23638437, 7650535, 34384143, 130875647, 126032031, 3068963, 127402215,
     100635784, 48002173, 113397993, 54263433, 2424983, 73694383, 105728445, 56214040, 49148448, 50514910,
     77647482, 112908529, 1218480, 60776774, 6271607, 94993705, 24282602, 83713345, 128202075, 128096658,
     26376692, 15974668, 101433224, 33029209, 124776224, 109990510, 126438982, 62036153, 46222144, 68786050,
     47619537, 119817654, 70424286, 33674416, 104099674, 62122643, 14502610, 79156699, 100448286, 104822320,
     107001953, 49297797, 115386218, 39710168, 4916607, 58113146, 126943151, 131310772, 12237954, 27982167,
     45733420, 68837595, 81983884, 48670768, 123223576, 19890481, 45628595, 37000656, 124043704, 94302279,
     73167994, 12357875, 41936378, 92068775, 42520174, 41093585, 23820663, 107209580, 10495320, 84128446,
     19980730, 96789106, 92499447, 41514023, 133778408, 64933701, 21680117, 96654054, 6516561, 10866029,
     132432512, 80617772, 71609283, 123964408, 54477368, 4271678, 31854779, 99396078, 79719991, 46148470,
     110903506, 33582464, 61158334, 87371236, 56607304, 19545996, 7476897, 131405949, 122952746, 85674447,
     4391767, 107597578, 66245065, 44853590, 112532073, 27791108, 17525053, 131707921, 98202336, 75705188,
     127479805, 17821025, 84610760, 120325658, 105764851, 55542304, 14311718, 22658752, 58325010, 50062894,
     20031371, 7888058, 113378264, 56458126, 39569121, 18951866, 60821422, 123749193, 134123768, 83268944,
     114387417, 22721706, 130997518, 70087739, 60873106, 128866647, 65519591, 92454411, 97912506, 42641274,
     64295989, 36780426, 39060394, 63093180, 54195697, 121045663, 19663751, 15107594, 50600183, 110334354,
     132659151, 71370525, 128824307, 24078154, 84149813, 125781405, 67017924, 116474001, 45429850, 24175337,
     11963821, 66016603, 36548847, 69146137, 104960809, 73564807, 116418686, 67487961, 48496386, 8470318,
     105498164, 106723465, 104005061, 47741085, 93227197, 78850809, 89123047, 4606155, 101956985, 41030236,
     48778985, 75069898, 94552305, 89698720, 37695324, 112103006, 65187567, 35548698, 103313756, 131661768,
     92728740, 96097919, 39440153, 128430987, 126909244, 45643877, 87200204, 23977915, 77934976, 114329613,
     1554329, 63659984, 73415874, 103846540, 33647349, 43742219, 90146387, 36733393, 62134619, 38765638,
     109612889, 67155722, 86897515, 90414180, 107055542, 47858100, 46692268, 36758967, 86444682, 46383208,
     99029510, 125831157, 111157601, 54823784, 46982264, 123793470, 113129383, 23148936, 116757511, 116362940,
     92387022, 60368995, 131012902, 48892120, 128381468, 44874255, 69543497, 19039886, 71046822, 131560864,
     22303311, 26662780, 112289273, 48590698, 125813240, 114602450, 64053925, 37964584, 92801571, 10581286,
     96594683, 90041076, 98026377, 55919584, 23062196, 82782870, 104739706, 125657967, 77959736, 69317441,
     89329444, 125685654, 56477750, 40623155, 83716575, 74250296, 103979110, 116383968, 85478797, 36333553,
     96692393, 133683114, 3707364, 26252834, 21477932, 78711747, 59199200, 83761501, 87257235, 24258881,
     29398804, 101870873, 92067621, 24230748, 84673288, 96430382, 5618582, 132401546, 63295134, 131501155,
     30365767, 22245982, 7266951, 119696693, 17921675, 14875194, 42594108, 129920145, 24366854, 64781779,
     25952353, 73594364, 4785875, 55766093, 62455557, 47123822, 51042847, 88922465, 82113594, 9660587,
     79210525, 27429574, 31923204, 96370372, 121223079, 50198896, 88666, 47046049, 54408611, 127789585,
     37383404, 114870876, 55034947, 116286406, 15445029, 92456599, 111584600, 73449717, 50181277, 129435640,
     4840174, 73810748, 82351178, 40450867, 12726748, 39631989, 73178305, 68806409, 45549914, 127654871,
     77966573, 39351539, 128620916, 47193392, 109860163, 17335528, 56250908, 54927637, 109117650, 75688078,
     86207582, 72260901, 49585762, 62743066, 19074015, 21042044, 79985396, 51371347, 75679892, 64026057,
     128474899, 26730451, 129922347, 17848681, 81686237, 12191157, 47126002, 110224202, 119919110, 88806304,
     127168, 51251552, 14484554, 43760639, 75942002, 123007343, 82566456, 72400211, 18884499, 43679790,
     84484193, 117641797, 119625815, 75738318, 50445505, 57606368, 57939617, 131087828, 30378285, 66224396,
     39123740, 64367436, 130520650, 95066220, 50973280, 51525050, 129001905, 114751399, 122641082, 21344293,
     79968261, 79718686, 34873074, 99458855, 131664982, 40373055, 66612997, 33697814, 55766354, 2640239,
     42835929, 126859383, 132107357, 41270398, 66002200, 124761356, 38439736, 19232248, 64013226, 3191016,
     16359263, 88591598, 83441365, 128960544, 59521218, 32950493, 39339632, 5365555, 104918843, 18312697,
     110971929, 52665540, 1772116, 64464317, 71479617, 75204259, 36747152, 32678222, 125527550, 63656517,
     104945813, 4934238, 32971951, 65782633, 35928543, 113268216, 20772294, 96832223, 132717872, 38349846,
     39351061, 66070550, 81609423, 133208853, 63703951, 69554184, 86553875, 115894538, 81047874, 118200156,
     99787288, 120125239, 15861716, 2170671, 102058983, 16915775, 40357896, 37896032, 71604878, 95029815,
     45113483, 82352175, 39838796, 98150200, 71117613, 3572316, 62322222, 46944629, 48457885, 91504475,
     99994513, 109070420, 79296464, 17781112, 4889406, 380661, 33879634, 74253034, 61151438, 92037509,
     123020375, 14441912, 119177366, 92264036, 73228157, 25659652, 1954279, 57669402, 104472752, 108384985,
     57409154, 79845063, 77261332, 92478341, 95050473, 127945442, 84857191, 87089111, 64676712, 115251807,
     122368357, 112904006, 51737330, 63850020, 52595322, 91580540, 114340268, 96584344, 26369509, 120647936,
     39788657, 62422606, 111403873, 101763442, 8865655, 40755230, 112243418, 433047, 93230517, 104555304,
     58092130, 78129831, 38434733, 87026047, 104787693, 63411121, 122228812, 41735091, 19150746, 22206242,
     64211453, 93312562, 73698328, 119277956, 66797736, 130583359, 44390769, 72201724, 20606145, 57117797,
     78631756, 72666313, 108961044, 6516818, 9183084, 98332507, 30872662, 35863625, 110004009, 11434839,
     106266954, 8444655, 89067072, 126455401, 3429711, 44701428, 96985540, 57624526, 131357010, 9221376,
     133994185, 54392853, 94119933, 65322575, 6562297, 16559115, 113019734, 16422410, 29424835, 82484243,
     86669409, 110642304, 127808162, 14919093, 95622529, 120104267, 18069180, 133419547, 39257733, 94727371,
     123211582, 58783392, 20096421, 24573366, 81954947, 24868674, 55557582, 107650054, 21633199, 9023180,
     83537791, 28607006, 5846911, 74559432, 14524333, 88612114, 50895235, 100062815, 9664205, 37563572,
     7725739, 76652191, 77209514, 15885214, 99634869, 53489859, 117904518, 83714253, 18029853, 1338002,
     57937834, 12272570, 42220819, 92003090, 80559846, 65692031, 65710283, 47432933, 125968439, 88067597,
     50224032, 122781685, 7482802, 18553234, 93589522, 39557218, 20281534, 76322669, 84737816, 90992526,
     67893246, 38954890, 122194844, 126429198, 74476191, 73804132, 83332811, 29607172, 35332377, 8480699,
     74044605, 31626031, 34116838, 111750744, 100740956, 38042971, 69389988, 130876106, 17955761, 108451793,
     31463361, 115897361, 49823516, 60846026, 98885299, 52197760, 24067975, 17607058, 95737010, 2508700,
     87914456, 45849346, 11441169, 76937029, 89651163, 4824618, 12237740, 115881558, 16749248, 67976855,
     79721875, 60867914, 32022349, 52325064, 117699102, 62093891, 64487313, 129292011, 43390744, 14438317,
     106899532, 71229691, 3954185, 72759543, 97308746, 51622748, 7202014, 113849276, 20240175, 126784683,
     127780842, 57624337, 91417379, 106623503, 29942367, 100610621, 15579695, 11244375, 130553243, 122327141,
     89263211, 65960726, 110138555, 28387169, 18758970, 94152335, 83858897, 50448329, 47553107, 112181485,
     31543695, 38896581, 44730081, 124894965, 82377119, 94667137, 46797928, 106842881, 51774213, 50752942,
     18310707, 97002174, 111548423, 48091866, 86958283, 39716718, 107978589, 84737126, 58169224, 129016433,
     114296614, 48616137, 69456495, 4878893, 79541023, 133287757, 76941447, 28840821, 99342597, 24231098,
     53084440, 8493493, 13018952, 4979774, 4451410, 25010365, 27166677, 26252768, 5295307, 65770598,
     119354114, 125777812, 64557662, 88751118, 102052096, 46777240, 59006, 57309316, 63107372, 40338678,
     119423831, 125440669, 83143235, 123710331, 57531736, 43387018, 62488216, 61994897, 13388010, 25716374,
     20759893, 87692730, 21346125, 9555021, 50282536, 116644224, 51762070, 116623995, 118157614, 63036708,
     20416384, 74096651, 34100309, 14795736, 37236246, 109847264, 21681192, 100712671, 38527596, 90192436,
     31563687, 4449728, 64697766, 120307164, 4307786, 46210957, 124086951, 100931499, 49522050, 42421511,
     125888451, 7904572, 92303444, 2918227, 90437749, 61291636, 63314762, 113923728, 126890027, 20933860,
     15826053, 105407901, 89733338, 43525493, 39070870, 60918518, 90525215, 32205409, 97884720, 133358487,
     21908173, 4500606, 26980774, 95939767, 3346091, 77137623, 30933491, 88109811, 10496272, 82890385,
     53830806, 122362682, 130673593, 94853335, 48889224, 91338511, 41854364, 24759978, 62818856, 48514345,
     38002838, 8976302, 98294044, 133361424, 96358718, 62818996, 21924896, 104131746, 32283814, 23574737,
     90219329, 28020489, 126229329, 5894988, 86687690, 81695754, 57800590, 97498744, 130920222, 36334250,
     841905, 61997089, 8169411, 60805180, 104590951, 91446195, 55051925, 22784456, 6032862, 4465377,
     73607186, 112144055, 132822610, 112376088, 69650942, 75859946, 46977989, 126098182, 12591590, 96171837,
     9558767, 31808948, 120633814, 107802823, 65922407, 12340871, 125592389, 63252118, 7215744, 91642633,
     32677133, 86469194, 6772323, 66762318, 53327241, 104897648, 8071686, 6429172, 34283240, 111860756,
     54689960, 59844589, 41063764, 85965589, 6890899, 117451835, 5047197, 127525054, 130409258, 26104972,
     24076840, 93379288, 68267052, 85973675, 54003512, 25240832, 71311098, 31369801, 11322573, 124411009,
     42129324, 106139256, 14492886, 11652673, 72737563, 132226665, 123655131, 21734715, 80300656, 10116146,
     114993298, 97997976, 28777590, 83879136, 2336498, 59218412, 72428326, 47998127, 65302297, 56798343,
     76694967, 103095313, 50550242, 70104099, 83899404, 17815609, 97393568, 1658016, 122540608, 101492582,
     41286845, 92423037, 60269390, 119656300, 110919640, 134175077, 30061219, 74419035, 15527222, 18618217,
     41838020, 64857084, 11762126, 104677154, 103670439, 35363802, 109983063, 54035731, 41993505, 17806388,
     17423276, 72042634, 11003835, 63298393, 32863150, 93573107, 11317871, 107214344, 57532443, 129891843,
     77441320, 89429115, 32935210, 37021625, 8246650, 66123742, 94033261, 33390222, 6446626, 94435901,
     26823941, 106861623, 38388727, 118468576, 50165576, 118853809, 13224603, 9646930, 56449020, 103274763,
     42134901, 50984536, 100974305, 103248598, 74636353, 10107, 120271161, 38374050, 87791562, 126207480,
     101967719, 17655435, 77138811, 3800908, 59348744, 19256420, 109629132, 92284871, 87974159, 104869715,
     128146333, 2511772, 97713215, 6334677, 94110347, 57390871, 35929396, 14299180, 108994996, 108079479,
     51325571, 75421077, 17481125, 43121217, 8848824, 41130304, 22731484, 18432139, 35244503, 66802701,
     90717304, 43381019, 38322006, 4568198, 8525973, 72798325, 102513856, 99181480, 74789476, 3743718,
     3687267, 16329231, 6795519, 130128661, 17464169, 110927450, 47935644, 58512899, 115400154, 34650727,
     127402117, 127702674, 82141482, 2231178, 31017333, 70791487, 57566417, 16820592, 48642013, 27002599,
     44341785, 48082621, 1670462, 21917104, 78439450, 83108924, 110987730, 21899601, 97553894, 131927525,
     12790550, 35991812, 71177310, 81325725, 22977460, 84633386, 95218664, 19331786, 59889993, 102634098,
     125968380, 58325569, 106672988, 57640778, 15864912, 44759568, 42557065, 59838292, 122808090, 30640883,
     61873986, 80024215, 58271230, 23021928, 59247020, 6500074, 103012232, 89655054, 125667558, 21553566,
     71484516, 63526481, 130146262, 65957737, 79995847, 216736, 13899997, 17029402, 109287974, 114153203,
     56298603, 92006007, 7021102, 27857869, 131266276, 145471, 4411819, 122000118, 77442386, 31651868,
     64692178, 94631119, 118351742, 47551566, 52709697, 62302526, 28939998, 27021629, 37184313, 110287643,
     26998757, 40698376, 75488416, 69232761, 47914284, 102618390, 100808269, 105393703, 32421395, 49210907,
     47213889, 108560791, 33318103, 109284290, 131858259, 89004881, 112771065, 121925744, 114062812, 8330310,
     82967252, 66354092, 53802166, 46865273, 19200403, 19169802, 111626067, 31987854, 65781854, 51213850,
     5065915, 12585495, 22757428, 53283255, 13249983, 101147641, 96326959, 37775287, 120820340, 123597638,
     26751876, 106900689, 106976467, 101341294, 43494662, 64042040, 91657762, 63101941, 115845922, 71640773,
     83631520, 12227991, 107423931, 26706894, 50524296, 92431657, 1353200, 13896679, 68685082, 81246299,
     78742421, 83341540, 24795324, 109154234, 52223345, 2981983, 42579807, 90990147, 3630497, 81905185,
     41886313, 68933075, 51383481, 67268035, 63901401, 73236575, 94401631, 92692167, 53566922, 60364393,
     131853802, 105711824, 109458344, 77763184, 124002198, 125461791, 92986899, 74821578, 89949472, 8204954,
     72037138, 19679734, 107197258, 55925237, 48693871, 128622259, 79665718, 2705507, 91195805, 103342373,
     70089601, 27754542, 38140945, 38439323, 10435060, 3669266, 11713035, 103849226, 47763671, 81964644,
     77899463, 115820178, 101953487, 126295340, 95893208, 55446007, 41176992, 130006670, 124713729, 1940793,
     36856061, 124715213, 96108951, 31461575, 9668108, 5072336, 101118761, 11855593, 89917962, 129096446,
     128434434, 40344766, 120413743, 47164388, 92298151, 107532826, 112508628, 125116147, 99134980, 81300380,
     82004471, 75426615, 28017333, 64838868, 69349030, 12339806, 120276635, 16249233, 32089531, 45896919,
     130817291, 105452328, 73008839, 56852067, 52802560, 130065985, 397294, 90081070, 52367318, 50731585,
     23908665, 100770851, 87656718, 70911838, 120733754, 27807573, 122161597, 90917036, 82346577, 43138779,
     51897199, 43515641, 14616927, 113161664, 92447402, 119357503, 74279012, 92386212, 96000764, 132043161,
     50199798, 33422017, 119020107, 13429991, 28549224, 39440829, 41014227, 107025102, 35925109, 106994793,
     83506765, 10460562, 120428304, 127572349, 22470979, 10291059, 84933983, 55436859, 102876249, 24888977,
     30151842, 88029777, 8413949, 76493434, 75952821, 84083221, 111436947, 85890068, 117921648, 73272166,
     97715243, 54629248, 55948522, 30972424, 57095244, 64858715, 70970269, 80023693, 121431252, 32795551,
     40577160, 56139811, 37681447, 11331282, 81251171, 119374767, 129730151, 44385807, 25130143, 56615071,
     4090802, 20021333, 15515076, 39682256, 75507572, 74492836, 80993432, 75615097, 24679650, 58227553,
     25539370, 43762543, 79795279, 13732269, 86752782, 105596002, 92640486, 44311268, 97834463, 10228463,
     8239910, 127815835, 65054921, 18482837, 112022695, 69703717, 128474573, 9769642, 42741138, 25415629,
     114130382, 62812342, 86594772, 51556992, 124381375, 121050742, 30745142, 119916359, 93523045, 82582381,
     112839433, 107081698, 63982894, 112730834, 13528670, 212923, 25974812, 90241984, 21024689, 14978852,
     12459413, 45061724, 20395251, 49350928, 82642168, 102061345, 14079577, 77171689, 101746043, 59209272,
     98813269, 43319732, 109571050, 103292395, 107872706, 24566549, 95710583, 119944698, 124028165, 73696491,
     128433093, 77900873, 83899517, 116666977, 129532983, 116829175, 13867774, 49034680, 13808609, 109280033,
     8651332, 26238775, 27704980, 43510207, 50256176, 23202532, 61562160, 119573973, 91335202, 132589668,
     99714574, 102728052, 11244951, 32998095, 54122827, 126355517, 72942797, 62545284, 50356066, 754259,
     15777120, 131581228, 80139468, 129130639, 50252620, 17816696, 91767849, 440745, 66506252, 51145871,
     129211114, 45982892, 126839637, 99646740, 9689793, 65858895, 101977658, 125844361, 96804958, 95610070,
     39718763, 2124846, 15682986, 108655541, 64292123, 134091376, 47531773, 100788826, 98960885, 26228791,
     123264538, 46122127, 51283718, 19007898, 39002652, 121565240, 66942591, 86232815, 93531708, 102827834,
     105897795, 11892364, 77266551, 14749205, 39724380, 54774572, 45224194, 126577041, 113818458, 8488571,
     69691726, 58034561, 6763867, 29573675, 56473422, 132333093, 31922004, 36381000, 89415265, 96640501,
     9848315, 19573535, 36378400, 129851509, 12887583, 74269028, 64096627, 58041992, 132156338, 24147303,
     72660069, 113258017, 51846516, 114821191, 125347566, 32886993, 12323867, 60729091, 47750568, 17316293,
     108821055, 11223949, 687655, 109787347, 102798790, 18899327, 48458468, 108800157, 2202227, 2858180,
     33669015, 75474655, 61502711, 128415318, 51380940, 116521214, 69359455, 10523991, 7130544, 130394369,
     29338191, 26016478, 130768665, 107840829, 59410519, 1637128, 63335888, 69687045, 11455252, 128326874,
     37468272, 80308555, 128144881, 112632703, 92216366, 63130014, 68157526, 3019649, 7112930, 21476229,
     52709430, 103464668, 104480447, 67131610, 58343826, 115447995, 79663423, 126139871, 121112444, 88720171,
     86588359, 82973066, 85342371, 78804457, 4838874, 28936887, 3196975, 56590438, 103288566, 97074634,
     55466200, 109048420, 117334189, 110548213, 110821305, 58028805, 122856943, 120549609, 50806691, 2000686,
     134090261, 109475312, 101501636, 22357330, 119692590, 45421706, 19893415, 40664994, 104812937, 25600746,
     56657960, 111965452, 130471458, 10297845, 133435569, 49593334, 29084599, 52825493, 56561393, 25588096,
     36360259, 18690466, 63060456, 48776605, 38454528, 320389, 89456998, 85009952, 16553824, 103249447,
     22712945, 101742516, 61426801, 10323179, 9919621, 92265493, 51160452, 4820409, 120447390, 54971477,
     118826634, 20075999, 26377757, 86995780, 2480615, 100308172, 111171295, 66281442, 128953235, 42635988,
     80384513, 61487213, 18298617, 62834931, 31750050, 10369799, 123504448, 48966412, 125837865, 83071958,
     4174175, 1929663, 24803833, 109036862, 57581980, 11486228, 35795678, 17630032, 101183746, 87759576,
     50055452, 44847770, 104043675, 28803302, 20398254, 39431072, 69567817, 120297934, 130858946, 119775595,
     94221575, 74836995, 12087988, 38069845, 14895928, 14205871, 86370232, 53610239, 50330148, 40747044,
     49485783, 121659941, 64113488, 73493121, 78074697, 59507201, 129634682, 116875733, 32335138, 129523206,
     76325712, 18853186, 35307530, 2351929, 73196440, 1695254, 98173426, 51707942, 17931281, 31879734,
     64579238, 89258632, 94725340, 7502728, 1092670, 2042086, 103499475, 28363207, 56217517, 31195248,
     67667618, 96127174, 81940546, 31679336, 106420528, 41167471, 7524178, 107963638, 67182475, 32013827,
     5139261, 92912013, 51739396, 118665179, 46406244, 104222733, 2871988, 74861099, 39962572, 58999711,
     60401151, 13762880, 87896103, 16565279, 124123529, 121624882, 49721296, 76331292, 71144210, 36997908,
     95721228, 78262062, 125801601, 79754550, 127460418, 52415917, 132610635, 50709875, 40503218, 113651447,
     22366652, 79305911, 125076266, 91588083, 10386023, 86525290, 60226726, 7409640, 98812415, 28462464,
     70966379, 83116615, 52176399, 13215153, 124085975, 68908048, 40159347, 109712940, 74051391, 50076382,
     111356371, 54856374, 18522720, 61230483, 47105818, 8477268, 66341654, 514120, 75956250, 75793485,
     27831902, 76078428, 60926796, 5665378, 8029570, 99597489, 11801038, 15686988, 45916209, 118811342,
     19298904, 50220535, 129859317, 45739022, 35339804, 109405290, 37009617, 64955267, 105185293, 19306809,
     99476498, 16692129, 35179443, 33734394, 111289529, 3330562, 83983225, 33866645, 52158623, 22308018,
     84397542, 105924110, 32979492, 94222462, 35351755, 79459211, 117644613, 117471973, 58873489, 122831567,
     120431203, 112253233, 23747325, 79708762, 18428367, 75917158, 6972973, 121022332, 99284925, 47657348,
     75325467, 16570910, 1294806, 61188989, 5810699, 93111973, 110602250, 82007508, 66354163, 90465430,
     116946416, 87186828, 5337532, 3489869, 79034802, 55217636, 15764374, 55378022, 96787199, 71301056,
     82050468, 59419683, 82147398, 77450256, 29732085, 71996255, 127375476, 93434301, 14901516, 94727534,
     8595433, 96530004, 91811425, 79416516, 12456166, 5708947, 8970397, 96072050, 61779460, 40781173,
     87090277, 70398700, 119731509, 72626471, 96752857, 112619981, 9309116, 128369870, 86317831, 91239615,
     113230196, 36689358, 16176400, 54376551, 101267172, 40977299, 34715649, 60858340, 40083133, 40138523,
     201203, 117952620, 101765460, 43324922, 69223185, 88261231, 121059918, 66845515, 62482573, 51116579,
     20860286, 88045592, 29045158, 126620993, 35347517, 42228526, 127073806, 82102971, 27547758, 61420473,
     11838422, 20160749, 47343467, 133389354, 10618905, 85885878, 57069683, 58754097, 83431914, 69546990,
     87325267, 52973727, 23462391, 26397593, 18630450, 122823950, 65928511, 22789925, 92233761, 67400086,
     60015754, 125539906, 76943329, 46177475, 122423803, 2288985, 19469357, 58230800, 35948357, 75589711,
     66271617, 67462206, 71956116, 127631077, 120820771, 29086136, 74531322, 32184434, 88903372, 22562580,
     56318905, 74124194, 105264230, 33730581, 112196615, 42078218, 39406586, 82806283, 14472053, 26317226,
     34789597, 57096897, 47992270, 113551338, 119411608, 69290414, 35513681, 65322138, 84473886, 95192655,
     85984032, 11578836, 128340926, 109172829, 15632769, 92567322, 103331788, 14834173, 45152329, 12877667,
     13818228, 116868268, 84830373, 38193954, 113325308, 101440853, 78178507, 24003102, 6689661, 104210872,
     130476031, 72890572, 51556708, 23114312, 85404451, 44921187, 97171999, 102790061, 34987377, 13401470,
     54807630, 115130840, 44199519, 118444053, 12874955, 41866475, 8646622, 39281661, 96215342, 45249751,
     55100901, 134071669, 116726171, 54834241, 8417614, 8881864, 40456941, 9248433, 24178508, 5285406,
     126622660, 12685105, 106104187, 98949235, 120305138, 128593939, 67964685, 54575065, 13982607, 61978456,
     55854420, 9624695, 30359210, 56601840, 3607715, 126068461, 75829380, 72631184, 38920335, 87448409,
     14476139, 91487025, 68661263, 43391958, 125248695, 48610260, 126967256, 10171169, 62561833, 51039776,
     13791038, 22839361, 103174244, 33022961, 15408670, 82550339, 72128721, 12759576, 11234560, 87871926,
     132503128, 89091123, 72843327, 51080395, 58717083, 15418248, 36531485, 41131619, 73945125, 60921275,
     130586216, 110172551, 57428203, 5255197, 28085651, 118370590, 69076342, 131719126, 123243599, 17941386,
     51239946, 88082469, 85074518, 24273949, 123309974, 25760092, 43712752, 118311125, 108835640, 95499865,
     71002763, 9553451, 18720398, 41090273, 7191353, 114889937, 126029807, 86064687, 62544691, 41125677,
     59482471, 74209559, 123157092, 107094763, 77037758, 85300419, 67131807, 34332760, 38136356, 22282659,
     99879596, 84365301, 34391267, 61295373, 63152250, 54217542, 101808707, 95295128, 81183420, 13199256,
     18011518, 79987868, 27208826, 61357220, 93280022, 127527386, 97847769, 103218441, 13773496, 59755392,
     133884062, 31407563, 17902494, 33518635, 22508659, 86245712, 12044000, 96549147, 59913661, 34496832,
     83164987, 62272369, 115065038, 90839940, 21900445, 107630392, 93781886, 64668267, 14122933, 39989658,
     77897429, 118785991, 33806495, 84251756, 47817645, 93647225, 7045274, 72815103, 96717935, 74554397,
     16413334, 27737044, 102563372, 3184637, 45160282, 77525842, 79418680, 64594717, 85777277, 113065559,
     65593439, 117430819, 117266234, 69969725, 123406592, 81049708, 37858839, 81253158, 44801031, 7767265,
     117701398, 38739365, 17827470, 70319579, 56379594, 39490178, 55652861, 49717832, 131047466, 103763440,
     17212687, 38902046, 87921599, 26129085, 101606335, 127712454, 97750100, 4406170, 140378, 65429079,
     126654720, 21422845, 41935540, 129329088, 114496360, 56033587, 88763520, 37864763, 56479872, 110292509,
     112430240, 79383795, 90701180, 61866964, 45613227, 122752763, 98225326, 70359543, 67800481, 44002687,
     95504044, 92501281, 82460157, 105908143, 106839683, 1907062, 21382111, 77433234, 66376057, 87504950,
     162518, 72346866, 106141052, 64793217, 103549809, 62504737, 112353318, 50087651, 5794512, 30517031,
     71837880, 278148, 64235979, 130362613, 16038463, 98902732, 27189027, 22680835, 130775774, 22933491,
     114439303, 68088949, 31967566, 89378997, 111282726, 53607938, 87374746, 13720294, 51660865, 56054775,
     86534478, 115886632, 30736749, 86650640, 36743210, 123492790, 1354399, 27517747, 88133511, 31658719,
     78035361, 8984642, 99779008, 124958056, 67616638, 50085095, 58366602, 78139881, 41126269, 29931538,
     98692021, 12589119, 50035620, 74836492, 80094701, 73955575, 101686005, 108024104, 59664146, 105304989,
     92092368, 97522368, 8261046, 119697644, 34960895, 71220345, 112828083, 355473, 19790820, 57139931,
     7628111, 62215102, 1943015, 25438913, 102823706, 25482882, 14267508, 23111077, 61484748, 119340059,
     58844853, 120641990, 107764723, 63004629, 63970852, 38801781, 70031724, 10006406, 3328303, 103248262,
     106738641, 93829793, 102998146, 82216244, 83685526, 62448035, 112046812, 83008524, 82418946, 81099980,
     96101416, 121914257, 114215804, 114291408, 82860476, 27431140, 2721494, 87431206, 118717487, 59586990,
     132811470, 67431434, 27021365, 129967127, 8867949, 93474411, 45628355, 26973946, 13439984, 71684063,
     49573708, 119132861, 11971982, 23107640, 29553600, 53094908, 442102, 4498555, 57535347, 7780787,
     40266260, 25168042, 97816300, 116972801, 52176550, 52538812, 22283419, 103594749, 127962697, 15360661,
     120055490, 51520660, 92506343, 25220677, 29128920, 17706876, 54038841, 120808592, 60531952, 19773109,
     54856462, 128974047, 3534029, 36763376, 61164052, 70439929, 103034537, 27022410, 93071865, 92280496,
     115465742, 112541995, 91662166, 35795523, 102373054, 12358926, 116867696, 31230024, 123097555, 56713158,
     106440301, 109052449, 55846974, 110590014, 88551165, 120760465, 88349684, 75256363, 118476948, 110815743,
     95777895, 98663308, 59513370, 98331696, 25602460, 27194527, 43951364, 78120711, 33601577, 96107664,
     91524499, 116359535, 103266192, 6196453, 25780647, 110215050, 71601550, 130178397, 112779689, 21626113,
     49073938, 84995704, 12711397, 95101703, 81282544, 58116198, 48639552, 109445345, 19309376, 84192746,
     38657627, 24443680, 924359, 73040022, 19982643, 94680797, 57087806, 127257377, 14084153, 99700972,
     805806, 94079579, 73815602, 62626764, 128547715, 111220709, 111938872, 120573041, 43775752, 97498408,
     124079187, 118850462, 10714848, 65468284, 20189137, 49336102, 911838, 132634334, 7849519, 97030321,
     80774148, 49613430, 101600147, 118854763, 64111617, 35527896, 107821002, 76710515, 60567281, 118930132,
     123309213, 44186300, 81606292, 130092323, 72068180, 55356042, 22909092, 52776261, 57244455, 74994363,
     59099963, 131275591, 110433821, 2215366, 30819062, 64474674, 39548164, 14659527, 109602422, 68994996,
     9517027, 104218329, 72070781, 64970754, 29477495, 11173777, 89278272, 87905809, 79780442, 42127386,
     12658341, 10876203, 98012113, 43658177, 54666362, 23365958, 43041743, 47029624, 114964561, 103272367,
     104522776, 5596988, 41545588, 84487681, 90963467, 104601836, 16574700, 124411539, 69642975, 119496406,
     11073647, 102618072, 86001728, 116901992, 122944823, 91475543, 85407060, 11418792, 5461678, 65375978,
     68871461, 118058576, 63016486, 29052716, 59465252, 40777027, 20287474, 56934345, 37342211, 82686075,
     60333078, 76825909, 9545292, 130184598, 90514179, 69345912, 32688722, 118246073, 38960048, 111595669,
     12190858, 79186252, 40615785, 9773101, 124974950, 50538058, 39167931, 55522290, 12877179, 21438964,
     46410315, 84007945, 126842055, 56900457, 11802851, 132648972, 45965515, 116882354, 28053711, 47807367,
     91511715, 13949990, 61957433, 43622425, 13193850, 111427699, 115732720, 66643486, 44036912, 4754628,
     92082711, 129613697, 60777995, 94003258, 117000342, 124921884, 7806220, 79849832, 30612319, 119381359,
     38335903, 41540883, 35479067, 61730236, 110325534, 119390624, 67433408, 70595796, 46539532, 68896880,
     68029975, 12551394, 113522110, 68509350, 76468845, 118476583, 60591679, 55428440, 88159676, 26351155,
     82556169, 97788351, 54423552, 125374782, 57219894, 16643972, 17676472, 8499592, 58931545, 43320635,
     117967981, 5093725, 41072284, 105525602, 49017675, 56511125, 80972937, 126126172, 79250114, 14524981,
     23536343, 1253849, 59849237, 19212347, 98506526, 40978592, 5559278, 76202870, 14598743, 79152405,
     101388468, 93927514, 121498673, 6412707, 9059822, 123782367, 10930825, 39583048, 84098750, 39214576,
     38188120, 57975126, 88116681, 31130669, 4594053, 58183543, 61277851, 39804522, 21698041, 93241371,
     44585317, 70868984, 93085358, 133789082, 68457668, 75692980, 114543306, 53064405, 112973679, 62577954,
     83134469, 62093366, 113750858, 5191832, 23808884, 49054626, 63687143, 133780080, 42890535, 114013855,
     83885191, 11879884, 14936933, 58744792, 118818239, 36691213, 49726262, 123541781, 105193810, 45633742,
     126543056, 84238620, 126193661, 15477608, 52371914, 53950172, 115009391, 60312591, 133814747, 35516429,
     17471280, 19403965, 100323547, 107418188, 97606301, 72784622, 61434035, 47956477, 37298538, 24308879,
     23270497, 132052176, 55253775, 1274772, 125075497, 91738683, 53954307, 42339265, 34274715, 26147233,
     83139753, 20881624, 58702235, 122297184, 82349970, 69244668, 61001102, 15889770, 38435706, 50756046,
     4763724, 26048999, 109836780, 25977375, 88448010, 54463554, 32707709, 92776491, 67020398, 117465202,
     77969668, 89634762, 67588795, 3529710, 120921298, 15211047, 104506163, 74425069, 41127687, 13318174,
     45463843, 45206287, 82112019, 46658701, 21787038, 113683903, 125380480, 1695592, 6097238, 26330585,
     67044763, 4437904, 36688888, 63808534, 70606264, 27499654, 6120975, 123645518, 30094950, 133216606,
     132747457, 44306356, 105770023, 42203344, 29665849, 49409701, 61209803, 2269567, 4358442, 93776565,
     16376321, 101871759, 25747998, 14583941, 132109332, 93085477, 41847881, 16048550, 33246545, 120657101,
     8766686, 85142320, 14748094, 103644070, 133592301, 120157737, 99347020, 78447157, 123526598, 123723506,
     112164772, 47108183, 105045151, 45256296, 34226083, 55137431, 22695781, 104292211, 36233265, 41104994,
     8781630, 52519269, 23547202, 32350457, 96621426, 129269817, 65905931, 112519108, 1407581, 102961489,
     40899158, 63061901, 114025167, 31170741, 114212714, 7412979, 97909819, 100214278, 98172738, 101457640,
     122374594, 126618290, 74781885, 29299833, 51447559, 89273109, 76933379, 13022468, 37906976, 65021392,
     4893506, 92294624, 34891471, 477855, 61417566, 19777962, 16127640, 99504675, 10818912, 124064538,
     33191684, 42917817, 49411897, 32365463, 128458587, 82474219, 65360991, 886956, 112333261, 93498397,
     99908591, 259959, 79509199, 127019360, 43245765, 70034992, 52702149, 47415277, 42568433, 35946064,
     85138360, 28930506, 114762921, 112842530, 106112683, 78378068, 39628795, 60801247, 20071229, 92030343,
     1197842, 79439388, 78453150, 26666749, 30610491, 122144940, 743968, 75719354, 40541002, 11963076,
     30657975, 31803648, 27551811, 51389840, 89172494, 86777377, 78429871, 29221143, 37812184, 112957896,
     98062753, 18610012, 27711198, 101964056, 123646893, 22720576, 15954219, 81329561, 79456979, 82554787,
     94609424, 112474822, 98305114, 80019889, 65388508, 29777128, 116974762, 58943931, 84441992, 41073295,
     92720040, 34094864, 10611831, 80097826, 25059895, 79163582, 62513076, 107454633, 73182322, 87248158,
     12774429, 90767328, 99548875, 85876245, 46517274, 76184525, 63773382, 126826698, 70060102, 133090769,
     112582019, 1926599, 40549958, 1849956, 75130320, 22175084, 81263018, 21425673, 87964958, 105578640,
     41903228, 50861567, 37460124, 112494677, 63136199, 114347007, 80668492, 81288392, 86526729, 45258292,
     17956342, 26035487, 59879182, 73554831, 75197827, 84687049, 26137807, 99522056, 13714324, 81960255,
     124681135, 113054920, 2792136, 122593996, 66927842, 24248903, 39549967, 73319747, 4174778, 26640040,
     36228909, 96182455, 21667531, 37202236, 53712262, 110970349, 122111760, 36308699, 10656859, 85871375,
     47201109, 41834533, 93276926, 15126574, 83874104, 32643334, 2795314, 81025436, 30706168, 126620651,
     37728007, 108197137, 120119993, 50832414, 59337084, 108455876, 34568054, 9028267, 64449706, 53008670,
     65113751, 131418677, 20058915, 54500262, 89532738, 119661432, 96758651, 132395508, 64056424, 125999870,
     72129194, 8293730, 103419785, 132662601, 128358697, 53406412, 82249427, 80291337, 5949218, 27010643,
     67795250, 103573682, 88886987, 34656856, 44413335, 67516916, 91840241, 23521600, 49365804, 57900782,
     82735875, 108473174, 82432045, 90833214, 89928322, 21827113, 124213884, 51445349, 94998912, 110850027,
     95211168, 114924041, 94513458, 124004573, 30948948, 75972093, 82425787, 105418457, 83273236, 88608711,
     8185955, 37992541, 101239951, 131622504, 30438299, 55968310, 66049644, 64361043, 70298178, 114130684,
     96934164, 23632049, 102711435, 108895063, 62832988, 64581843, 126105132, 65850853, 59458845, 84728164,
     76028081, 32027740, 133083777, 31725127, 43456165, 95368452, 95833197, 29579094, 128357855, 19701221,
     11333186, 16476250, 104312316, 59864711, 87491134, 62844421, 72439758, 87334292, 105974258, 1539238,
     115422196, 90636152, 19680033, 1841408, 65303542, 93678568, 82604164, 91189578, 93796831, 18828181,
     128641158, 15013560, 107764959, 6287414, 111188538, 102206632, 8666480, 113030689, 57221692, 59204333,
     122594048, 24652443, 126981489, 16024729, 101477726, 2757424, 44778037, 105832223, 103323893, 58491963,
     71363715, 132825113, 89587796, 69768402, 85560377, 101436941, 116132197, 45603261, 95858557, 30064852,
     130253624, 21985823, 66241803, 68755800, 66237292, 113778172, 88240079, 119937561, 75402574, 43382708,
     6589609, 103328537, 128751505, 78852649, 42781014, 1197094, 67058572, 132747826, 5685731, 27313517,
     25548603, 73607603, 124652858, 34008546, 37227567, 130451598, 40078891, 30897884, 108971459, 89846069,
     32396207, 59513019, 89587711, 8934339, 76285252, 66604090, 120314560, 123562575, 63997198, 31317744,
     44109326, 55612236, 34773853, 29013866, 48830210, 58551938, 15584, 42222288, 16038938, 106202945,
     19970964, 31857432, 42222835, 38503149, 103133107, 31524954, 126425340, 122723850, 47550097, 102690983,
     33529498, 133282374, 39363266, 13996458, 84424269, 75013079, 64250680, 33958326, 15770881, 71339979,
     70299965, 84561375, 36096151, 5835191, 19332380, 89558982, 105393329, 116057768, 14122744, 13571112,
     58964349, 40346148, 102806343, 19510904, 72857136, 124842160, 117252906, 29711572, 42579199, 43753531,
     127012146, 24721206, 5854602, 57875282, 120152192, 87379903, 56942583, 51409021, 414460, 15350990,
     34824473, 112001414, 132713259, 70537402, 96141804, 52519382, 98952635, 11767169, 108859107, 12915744,
     857512, 42140350, 41190579, 75211671, 62506329, 18613061, 122036830, 96618520, 121870705, 84282190,
     20059164, 48767120, 132519958, 129319129, 74397342, 116223832, 40890516, 37317078, 11097900, 58647066,
     57271519, 129321189, 69874048, 984070, 60859456, 64416703, 41666974, 99117911, 127207849, 133055924,
     63796463, 13260579, 41294201, 69862560, 104364086, 10005513, 32789114, 133123469, 56744915, 14733856,
     13970406, 78258633, 31948414, 86109931, 133813657, 68125136, 83385946, 52283665, 70280583, 25775240,
     90367825, 90262665, 90218915, 63585601, 69967918, 69929777, 49220268, 27097063, 19784834, 95393818,
     3951574, 3211311, 16231744, 82892555, 54395683, 55482853, 1371748, 128879588, 90544991, 62863890,
     45266013, 75286032, 31347804, 120454024, 42096718, 121618359, 66145759, 34724862, 28129015, 30436464,
     114404054, 65496448, 64818387, 33974252, 9210721, 35737658, 11437203, 82524584, 119495127, 129724999,
     77599513, 73559880, 39100889, 132541928, 95705284, 58046751, 6172352, 90134904, 119306736, 62830031,
     125694170, 7179066, 89168521, 23249248, 6775377, 31219757, 57145739, 69455452, 112319169, 116857982,
     79652210, 20179097, 28049340, 47155633, 31465927, 92082832, 8545081, 104020141, 70038543, 57595698,
     24344315, 29917153, 59796372, 126873917, 120203403, 129986727, 120909934, 86853241, 66019431, 76957820,
     105222447, 115932553, 17990874, 59686564, 127205607, 21870812, 116164488, 48703091, 64789637, 15425011,
     118919052, 62884296, 39900466, 9659626, 131594908, 62009964, 43332818, 89680652, 124062957, 48326827,
     112357904, 81508834, 125430006, 131645093, 97571243, 32757780, 9841881, 69181968, 37523992, 88452161,
     88003522, 49817041, 121952996, 41161294, 91388345, 69669187, 5239195, 99770022, 46658019, 49862879,
     46315110, 105436772, 22976783, 114072518, 30201969, 51141640, 69277924, 55154529, 50036834, 81055026,
     35841250, 56501601, 55305282, 112221992, 127135207, 29523970, 80092971, 24227662, 100914427, 95660716,
     125179810, 123096354, 4154128, 45883203, 118168716, 5985583, 12770434, 104284824, 26343266, 122076697,
     99240026, 57384807, 101055262, 70529330, 82518365, 119163115, 63896673, 90161194, 96925557, 15262003,
     57442447, 133983047, 26091009, 49638811, 29456041, 53038392, 15125894, 75662149, 4928909, 50749474,
     127771632, 42236389, 127528927, 30505515, 46786840, 21060740, 55364112, 44625337, 37421072, 112595194,
     104864292, 41719120, 66089122, 43942253, 22874730, 30962181, 118669569, 120048193, 124645544, 119926658,
     6239043, 101684557, 61625762, 44036188, 29658737, 11693708, 85779178, 66729120, 48146830, 129630838,
     39978919, 12010233, 40587954, 19854536, 81514466, 44096368, 67534092, 93630996, 65470104, 102620380,
     91346589, 22275072, 63519725, 26512491, 127084000, 52802267, 58874206, 132082703, 106261185, 36421313,
     124893797, 86422916, 83444432, 121082022, 79108312, 3491345, 105995672, 107295653, 95548694, 80277282,
     25968361, 14211172, 55940844, 101367433, 21057931, 68939027, 2827927, 94928207, 92245074, 77056336,
     44128474, 93862889, 34194811, 103368515, 3495247, 113761916, 3030321, 116074963, 90155219, 75101846,
     48032618, 126525778, 58525706, 92204718, 90714101, 119472521, 121805557, 15339469, 94082082, 70543453,
     29429611, 89372120, 132752219, 101198255, 24652942, 92732469, 77947387, 131939115, 86436527, 42764772,
     38576518, 93738660, 119318158, 27323438, 81872463, 53029630, 95292313, 21608364, 18596396, 81228573,
     111705577, 64946652, 38559527, 133719761, 82960478, 53346397, 98914205, 60977563, 43245080, 96364611,
     35599064, 42211150, 44346117, 4643252, 131296170, 38217840, 88255706, 53201413, 63250981, 81668325,
     75422821, 104116190, 88009351, 31744363, 35177752, 105344259, 10183497, 107047203, 14650787, 11204496,
     78128137, 13975622, 80359097, 54692437, 131260261, 86778939, 83342651, 14325776, 114488974, 48282148,
     132451107, 18000429, 66630002, 117823188, 56597383, 4918649, 63242187, 80733410, 49887526, 43166236,
     102022642, 88169806, 77202564, 34525344, 16449615, 113655799, 128236289, 132927157, 70656670, 105778435,
     100490860, 84469191, 73471825, 26181235, 78989835, 127114845, 77327450, 95267805, 15391911, 66623323,
     17558350, 121369434, 98100873, 8965372, 46915189, 37753376, 17287556, 83968159, 109451139, 79792305,
     100386836, 31439388, 102522698, 6912918, 51953757, 14687534, 17677239, 60102200, 101945792, 10459182,
     28936378, 121966828, 89679503, 59091060, 93475556, 10146217, 36684783, 100384743, 293880, 13402508,
     79234390, 69690940, 106076209, 28134471, 78975480, 81192021, 132122172, 89521334, 30663925, 78099908,
     98124967, 119817879, 58427747, 67647717, 77884255, 66668911, 40561051, 14691096, 30927181, 18736860,
     73605346, 65038023, 81530526, 49347038, 122079743, 87340358, 81063519, 113297282, 67067333, 2418809,
     87364920, 18658885, 84279503, 115846406, 54749024, 84632009, 35783732, 17987053, 91580390, 4451762,
     51924275, 101044794, 5003560, 55773563, 22817403, 132693716, 48181442, 79166803, 92148907, 61483227,
     88067202, 64418266, 65794499, 56503758, 109569624, 30440991, 43820202, 109916931, 47118005, 63872046,
     100821859, 125999807, 91171175, 129214039, 57157892, 16121577, 119374452, 96935910, 3536595, 126588711,
     71992211, 99266640, 115198805, 92683488, 117984199, 2941495, 25917336, 90060078, 108352992, 96495754,
     71549973, 59969341, 125522832, 18620986, 44053389, 43841439, 89178754, 120326523, 86150732, 55234944,
     132944598, 10693418, 45521668, 36647909, 52294955, 9998005, 16738169, 10314220, 91767417, 9702789,
     9446071, 90201994, 113980604, 69151233, 19607554, 9806705, 25587552, 119699311, 127503167, 123566693,
     66900160, 58659883, 101305259, 112193721, 46387938, 51298422, 32548361, 80368628, 49463359, 25635083,
     131906137, 134135923, 25765363, 11275532, 121452021, 88880313, 118496970, 130900972, 91341881, 41652316,
     35665913, 4710274, 98042890, 55533397, 121472356, 108417830, 79578198, 51910828, 29535394, 117392442,
     81849566, 43083234, 128381118, 17027806, 79291160, 80872430, 20048795, 1602461, 27170878, 59230603,
     84591275, 26268966, 6432685, 113064604, 176665, 90789097, 50205621, 105325170, 34549331, 66533671,
     66244562, 66178273, 9858202, 60685547, 75115266, 10476954, 90677232, 116837949, 42548945, 23330644,
     78073740, 108241922, 70745928, 5628366, 105919359, 118741148, 77344212, 8451928, 85650339, 2916500,
     75664191, 43764815, 110449087, 132038813, 12950191, 110526908, 15295667, 63585798, 116195507, 120472513,
     111956481, 113876526, 1073749, 72094682, 120007156, 31763409, 81732784, 61947485, 114896299, 3451513,
     94108424, 31773608, 50492567, 47162622, 15279312, 5390351, 102637374, 14959697, 95300119, 26235594,
     63112030, 42914965, 36348724, 29703781, 48877391, 130032223, 125625660, 75951621, 62174961, 78990206,
     28188678, 31663354, 132382494, 25887910, 131308975, 125306611, 23726270, 118449387, 26426252, 16734327,
     97946688, 79369874, 51924654, 83921571, 63618468, 2115010, 91798798, 117792875, 36669684, 125023955,
     79778352, 64453154, 27394978, 2002624, 29707131, 2581126, 73216159, 100363934, 57409462, 125356728,
     120061123, 20961003, 19218582, 51566848, 122974358, 117231729, 35146535, 23326705, 46021558, 72053098,
     14271078, 92687220, 42424498, 35262858, 131637946, 26990730, 48594512, 87308869, 112195332, 72606194,
     131053155, 88622486, 93356098, 49931132, 24734588, 102404710, 57909557, 97237176, 22425091, 65761041,
     33503397, 108190955, 44956670, 7351625, 22260336, 130245588, 91239747, 127167930, 70162227, 73724164,
     39045372, 133636954, 34175560, 107379434, 19094283, 130580906, 15349089, 121888881, 58877377, 130027287,
     10057123, 16360269, 70140606, 16836734, 34269043, 99100134, 103640438, 48537605, 35820914, 7497876,
     114900505, 58988264, 126882020, 113837919, 124771918, 131530187, 30544871, 88441116, 124690417, 116299175,
     63328010, 104708225, 118733243, 31382088, 62291931, 23582005, 72611061, 21678824, 34726135, 112773329,
     101665604, 89045284, 49365188, 85916454, 118621588, 27052739, 94954901, 88317627, 57572301, 126855193,
     4177970, 6097749, 36050133, 45654957, 56001011, 30548451, 49702844, 14878773, 78206654, 118914976,
     701766, 95603583, 62753697, 98460671, 119792292, 77474202, 127918498, 43414472, 92431474, 68253618,
     92142648, 116024624, 80908629, 16627979, 134118498, 45847284, 106049487, 105425113, 61769602, 94763084,
     66514650, 52127512, 126098002, 103284047, 74055254, 10668827, 80301876, 96774871, 41278190, 111688976,
     89150150, 78512967, 65556649, 110742353, 126629017, 28562687, 134178007, 57228285, 133690298, 34137026,
     127609472, 111546548, 5847143, 121664231, 9775895, 48654703, 45518160, 57514251, 110969835, 49518262,
     74927538, 133904063, 34464531, 26318225, 13508663, 129512634, 33563018, 104021045, 17085407, 34775553,
     19271763, 130466404, 99977725, 10488516, 25930904, 10632304, 22401820, 49841505, 83200483, 9593206,
     17517806, 123421196, 111852131, 74751718, 87265010, 81184387, 117812820, 34919839, 97434205, 77735295,
     98065525, 111088574, 35890288, 84951509, 56747001, 15844646, 50983133, 38196155, 52614412, 132610559,
     122445634, 59404137, 58524062, 32875713, 107263997, 129848813, 84660026, 122910449, 11101674, 17306722,
     28255353, 130622809, 77556965, 49399134, 105945368, 112095886, 31282354, 67614494, 33517166, 35690015,
     50603986, 21849607, 61609804, 47224024, 56377053, 111027239, 124142735, 51615996, 81615596, 18132879,
     37336437, 93090902, 46183699, 10664933, 68142280, 44615986, 21550963, 89495804, 52611342, 109771103,
     8712241, 92236370, 88101698, 84828021, 116398524, 83061691, 120632886, 115790050, 80152876, 81517494,
     51628084, 15262000, 75155486, 118386212, 74564454, 39646354, 23689388, 3760655, 72526045, 87735070,
     66735017, 68480783, 26485167, 2286764, 59432902, 66863125, 112226199, 8699965, 86093087, 44562999,
     44163991, 21038861, 32016533, 123826827, 84596413, 59236763, 74192549, 1249855, 39991079, 21147883,
     63232977, 13388001, 54594874, 103787667, 84181911, 46713419, 117890647, 83058054, 50034054, 119057289,
     72214908, 20001871, 75428405, 118567248, 89556598, 34695810, 32682690, 84346575, 33140203, 24443826,
     123807504, 121776523, 19511325, 94255437, 91404370, 23940661, 34917560, 56633186, 65922578, 85708236,
     60580937, 96147894, 32086765, 131643850, 23640859, 55547011, 128494775, 70726208, 5180538, 116281928,
     19142559, 23346194, 99169458, 105784323, 49827885, 79257424, 26187221, 174641, 104196378, 39561683,
     131743733, 125720125, 27867047, 114097865, 94881225, 129745581, 53209296, 83708975, 133913536, 131304644,
     80093242, 82611700, 120106557, 103856416, 89006006, 1563985, 17670011, 85252407, 59293554, 34171859,
     94673440, 113088816, 20525480, 120912180, 11816612, 96270773, 132995761, 61066982, 123973846, 44748817,
     87346848, 21347714, 8523667, 72535683, 94091965, 106418152, 132721324, 29233492, 105014749, 113762992,
     96011315, 124189447, 59034804, 25841664, 84842640, 91679772, 124337822, 47848602, 67039981, 61694214,
     10004247, 78584623, 19489673, 97113533, 127822573, 37083347, 95228757, 8412589, 125531147, 106008398,
     19853957, 11934499, 14144893, 10959525, 91691855, 34923269, 57481417, 116089503, 62132308, 30286525,
     31228035, 125093169, 102439895, 115232903, 104887698, 91376662, 97430834, 63685605, 57689163, 109570555,
     65879193, 9278754, 53089762, 114141904, 62462449, 41300216, 43725162, 32962592, 62941538, 1068430,
     129156935, 134130923, 107582451, 105344536, 18149362, 3840947, 90005090, 113477685, 110021781, 36667834,
     46276761, 123441890, 119316247, 81531843, 126215611, 78796606, 9477702, 60230983, 83908244, 74003604,
     51092592, 30122621, 62609475, 11336023, 73596994, 74520627, 115371800, 80740035, 84664660, 110247730,
     119229601, 65978782, 33390299, 44915315, 106957499, 58435582, 52582568, 28725458, 24490448, 47090665,
     107791754, 43252757, 77486180, 114789114, 30256214, 123394973, 119921514, 26954114, 65983086, 71113950,
     90457279, 10057356, 132258654, 127106506, 43863539, 85858368, 72986755, 57911766, 73336752, 112714624,
     38300786, 18906347, 71678920, 35624532, 129657504, 97906231, 93595454, 47950317, 35614247, 48373776,
     91731778, 131360987, 82599084, 76107208, 49489264, 25545570, 90088166, 6858020, 50452779, 18000629,
     104854673, 89606273, 52058149, 77562308, 110612604, 117410976, 39889402, 117924444, 23052786, 1685321,
     44209777, 41995820, 16863832, 18721415, 117431074, 130911577, 133634681, 45097050, 55858757, 104117755,
     32231293, 45268686, 118368359, 53107983, 114249014, 33143342, 32788181, 76169719, 41007918, 127024572,
     66763889, 132641055, 17731632, 70715680, 28294358, 87995704, 53339832, 90662973, 16035184, 108842627,
     19386084, 95478473, 81159332, 68149197, 40359832, 57579785, 122861991, 89028399, 129042365, 5214693,
     89934349, 12052961, 36894192, 110101920, 101964506, 78817019, 45462895, 20346105, 116760407, 106614344,
     56868656, 28002770, 92854060, 111789907, 100776100, 2338615, 94297670, 62983702, 101017132, 128010651,
     45942995, 113150538, 20375578, 69421773, 49455782, 52467514, 128659613, 116961797, 4946169, 22817470,
     37873521, 126667942, 41534418, 118565555, 59096653, 10935246, 116857198, 3247638, 23069132, 77726337,
     13986068, 10959946, 2380293, 5619348, 45603369, 80117547, 97510134, 58451133, 60770572, 72034044,
     86706078, 37511128, 68822784, 79516723, 48377719, 53447336, 54694777, 121775488, 5485548, 108741001,
     127773874, 37307476, 98332417, 117765121, 13093614, 22292890, 27233546, 51094445, 105116785, 107877361,
     68127198, 46644218, 100492592, 2575927, 100890792, 28029970, 19529005, 76328670, 110393290, 11910928,
     27003147, 34681114, 18556599, 103583557, 100296767, 102334130, 109413023, 74578993, 40636121, 114219299,
     51724048, 125857309, 98546438, 126080902, 39488261, 8350830, 59699531, 114530865, 133172496, 24265131,
     17406055, 38862896, 126616835, 16896571, 119082117, 119126853, 133783720, 46405005, 32914713, 76770020,
     26606804, 97782442, 58721379, 94583247, 22957092, 32476389, 124103733, 86196704, 76632893, 80030077,
     112999704, 77422563, 65954712, 106010880, 66922388, 67571832, 128291334, 93223277, 16781839, 29559061,
     30278421, 124301603, 114946081, 128109344, 79072865, 108906252, 104958963, 19007429, 133555468, 97403554,
     103608496, 113085023, 81880121, 110213562, 100849316, 40942253, 71427295, 67478113, 29398217, 120410978,
     43648962, 72173788, 124115416, 57103345, 70666670, 25018273, 4307778, 118428472, 86104787, 24446900,
     133362160, 79702945, 84023673, 40508264, 66056925, 107967533, 61199033, 7709742, 84651292, 36088613,
     82528097, 36136674, 65545640, 40953947, 121259891, 86286506, 119025074, 6507449, 104982243, 1180169,
     97363698, 12048924, 96471863, 31431705, 26494775, 25321454, 65842654, 119857952, 35786394, 115201003,
     27486580, 21050954, 127508157, 100739839, 30992103, 26420904, 109388099, 44459428, 111930477, 24964114,
     54319721, 62237244, 3289388, 47020236, 23803490, 16343313, 86625403, 21917650, 95206906, 84467356,
     47627757, 93804199, 80453176, 53039088, 21876131, 55999583, 88292083, 32778191, 104922654, 84288226,
     105043343, 121886492, 75550844, 71220301, 76972859, 129573613, 278314, 61634180, 35756717, 33412639,
     54556954, 95442876, 9717593, 102403675, 9863025, 19105602, 128494114, 80441428, 91741383, 93496587,
     75485812, 28598784, 92536413, 121072335, 116615128, 18060297, 85221608, 128568683, 57313043, 28190078,
     52669826, 58309923, 130258447, 104611202, 128056982, 62171182, 20384051, 24249286, 109836604, 60544034,
     86262327, 81250726, 46119297, 1326747, 93215423, 37535439, 36856621, 94206390, 100072755, 41271412,
     75021732, 58378386, 78519614, 12872860, 7579608, 71383353, 121230940, 103624013, 128310291, 73420206,
     102150599, 47131838, 39368513, 44087082, 96976316, 12524986, 15625431, 19589975, 73351863, 128324797,
     46353823, 131541732, 63241535, 123732084, 38868561, 28915350, 9497436, 6061415, 58400859, 25192874,
     31874769, 67629474, 23515114, 119076254, 44490116, 101653081, 16715530, 2799939, 2971481, 10926760,
     130697632, 92687297, 7420220, 47971200, 119865902, 34647879, 56338769, 40055625, 16182503, 314795,
     57576692, 83800654, 68069656, 45966683, 7468560, 83474392, 72845303, 86979677, 986439, 3896985,
     40082447, 49957725, 95426279, 111148468, 113350317, 97700051, 23891789, 123784307, 54587636, 47556203,
     127159502, 81949960, 42290520, 47761799, 15833206, 73571130, 33128537, 108770224, 116176206, 116188045,
     46269823, 20987684, 89320338, 57475336, 125864965, 26283860, 83427933, 115568025, 26511010, 68714838,
     64532581, 34395765, 43688182, 60738899, 64339357, 83138519, 82557571, 55233554, 131004302, 33646814,
     92436793, 34881837, 68256390, 37891381, 108848146, 40863301, 68060213, 80783099, 25935130, 102353535,
     89957126, 106553611, 36303515, 126473705, 28488531, 108316679, 52187450, 25861292, 65073221, 85785780,
     4327298, 40455904, 48419771, 121350613, 128985148, 78826684, 68429547, 63645224, 49391044, 85157701,
     61318136, 79928104, 93731818, 123618500, 67487345, 131294765, 54352221, 106011339, 77921789, 92634281,
     36972003, 71491449, 91629281, 68097865, 56903739, 74587829, 94679753, 39633179, 46727076, 119325828,
     85690378, 114514121, 26334662, 94582628, 65117400, 88390249, 66079619, 49624851, 2041113, 5949213,
     16960316, 37433913, 61783551, 85430114, 102700681, 132559743, 108914626, 53850812, 113267886, 13132991,
     108193241, 78828308, 129749546, 41896690, 26271767, 14964561, 20271955, 105087402, 18608238, 58203936,
     106379721, 84777974, 25452784, 43117655, 42517859, 97715422, 18583597, 62736174, 121981066, 53816328,
     28107574, 92265643, 31603637, 48914615, 79776241, 85922781, 94373097, 109076032, 5159830, 74144386,
     77828848, 3607633, 71122575, 90943885, 74386252, 71938975, 69193100, 94028077, 107063392, 94875858,
     110398051, 52791998, 115544158, 56127931, 44406395, 113840286, 5601418, 76676023, 63168567, 125504956,
     3565407, 26218589, 85433156, 125705569, 64411662, 10107286, 100223677, 85359942, 111839096, 96079119,
     98320496, 49840073, 93089948, 100298134, 44675958, 112493113, 97462807, 109432908, 85817453, 116361467,
     29397125, 13078934, 116642796, 73022889, 63442572, 22117222, 71277505, 123262680, 26522277, 70732695,
     111556733, 88816016, 63586117, 85808198, 99626200, 6750272, 113033615, 126389663, 69670040, 106142271,
     78542532, 98242259, 62190514, 67924982, 31895042, 46934916, 107252829, 108036118, 123573430, 14902057,
     4665335, 26303533, 4436089, 22229644, 63062780, 103210536, 10721337, 54305986, 58859870, 16734340,
     45881972, 77348276, 32332615, 91760834, 104086958, 25414406, 78058427, 34026299, 123706291, 23920827,
     26095005, 31811898, 51067411, 133638540, 82808101, 73197726, 103720198, 126215174, 57429538, 129917732,
     24965467, 61583379, 51753297, 101615363, 76246984, 28821549, 129828044, 127115531, 87382866, 96342322,
     113347905, 9098237, 111906545, 89367735, 57529906, 91527990, 67915069, 82731022, 111883177, 8010504,
     97071761, 51257667, 53640637, 10892795, 25328825, 66991316, 98203564, 81747560, 39251251, 57675302,
     35544330, 69518965, 33671798, 42430520, 92171841, 99806449, 86764997, 90810769, 125760563, 76047980,
     79121982, 97787948, 64895841, 103650372, 118703282, 8666298, 18601936, 14848708, 79062174, 73107820,
     132519770, 79794850, 44703055, 15468158, 20422655, 77384931, 15270943, 83214989, 3676475, 83587286,
     98293523, 11017129, 55358019, 103770689, 110133901, 119328188, 112120785, 131723264, 3489183, 98304017,
     41146277, 14313160, 35413361, 75993631, 35414815, 133098916, 3862369, 116164084, 34225196, 126296982,
     45611580, 96865352, 60736065, 34832741, 71278283, 95863125, 132188804, 64263901, 14520241, 131940290,
     18005070, 74217209, 121237074, 38107696, 38620087, 104448056, 72299158, 62136514, 40950155, 93782535,
     120168794, 3760620, 125392835, 18481204, 76531926, 63228534, 12621670, 125487879, 49868766, 24316543,
     94488475, 37327163, 75967816, 34463498, 37619981, 104806895, 53278784, 102030713, 8264392, 72853024,
     54164542, 120955836, 110673705, 24308825, 51972039, 9233897, 62578637, 93911724, 22520853, 131294883,
     95652521, 5309076, 55955360, 116272418, 51720943, 119651464, 103789395, 11636522, 39828852, 45232755,
     10413490, 112631380, 86177062, 5210502, 99074264, 117227392, 7110596, 47545440, 46326129, 48242375,
     118916729, 105542583, 68305029, 70562110, 54649615, 10576424, 17467764, 26149251, 38688193, 48959594,
     78787292, 30450324, 122812456, 13427439, 88903325, 78404256, 129991356, 126136289, 54695100, 23453791,
     9259086, 103689397, 45776058, 126848440, 49174143, 4807599, 7649635, 49017109, 10930747, 14930460,
     122270936, 4151144, 120169159, 49959343, 17846031, 130468937, 11019497, 18194958, 131609170, 105276985,
     22379054, 98800565, 40483361, 59828465, 30309675, 109588867, 27978358, 7090891, 4180242, 102616901,
     61995662, 34015889, 104109336, 118358634, 9548586, 97557258, 65963378, 74438267, 17748111, 79028634,
     105726998, 80113075, 121374103, 127770583, 117428005, 5274882, 71619712, 22733471, 19015152, 129103031,
     96271303, 115244708, 9363292, 86160392, 104045078, 23058945, 40216533, 123975918, 119754790, 101261060,
     38232707, 117491037, 99343612, 27803365, 66481260, 93065119, 32111410, 24439043, 65927023, 128815208,
     57788169, 34967783, 20908066, 106966440, 73336327, 51704101, 71433341, 62685188, 93943302, 70933928,
     45581501, 115725133, 82497651, 98035154, 26606384, 22498249, 70082466, 5304867, 32185727, 119675458,
     105459617, 94861427, 25617955, 73529019, 39054486, 69996748, 9372276, 5929211, 40166315, 24356825,
     72640423, 80332461, 30626644, 75516125, 16221069, 52551377, 119902226, 5116987, 41661929, 15849228,
     28981596, 2273994, 53567678, 128187694, 112908368, 117579843, 100203190, 9586245, 121147970, 55227552,
     73237224, 126807941, 44925997, 74028989, 67277440, 14079741, 7845240, 127466979, 91592683, 54882231,
     112591667, 113441664, 122887781, 100537757, 111452272, 74411136, 86851448, 7042708, 107929901, 70548926,
     39115959, 67471654, 75447111, 94128008, 21887996, 90932811, 125670787, 99898651, 68759362, 92727755,
     23666805, 29386741, 132097271, 114315584, 83247282, 37428955, 28508350, 133221028, 113500554, 62128657,
     84048253, 128238275, 83540708, 47818981, 117808734, 62948763, 42400235, 95450135, 37273237, 131613155,
     76535752, 72073326, 27288224, 56620327, 93790587, 32942145, 64025233, 30994720, 26885613, 49588004,
     16727084, 112555918, 21758718, 106879694, 77313247, 35249493, 122728329, 6830465, 106962033, 818696,
     113867843, 92596548, 76062668, 48675168, 107514602, 63929864, 44339681, 19217895, 49385186, 24811155,
     121276915, 94477196, 34704746, 43635330, 83670038, 19863137, 76169999, 100835096, 6994124, 38828748,
     75997713, 118373556, 106991899, 107980550, 119311034, 15592392, 56184813, 23227876, 120614423, 134045486,
     5099218, 39436096, 121693464, 55496697, 91370594, 122920962, 108785004, 62461732, 60112580, 58452891,
     78841960, 18800061, 110795810, 66174503, 30009571, 19927059, 24609622, 126827735, 101087574, 32471817,
     117581699, 108940279, 30555334, 117978496, 73388463, 104151561, 68130549, 63577879, 41724549, 112622084,
     113154006, 6521784, 37961522, 14150765, 104626599, 113240531, 55327139, 88583063, 19663926, 2176930,
     129121738, 92477182, 19801223, 31100313, 13657436, 42254601, 3950717, 17506204, 47065688, 91592343,
     3580668, 75683206, 20819406, 95600946, 126302135, 38757696, 34133430, 2891625, 96003611, 5818526,
     28638412, 68336384, 1800090, 35143844, 948027, 133921075, 16370263, 23785310, 127978737, 72044793,
     61308973, 48020708, 33510597, 44518774, 6304786, 122738994, 86103778, 45292194, 42435545, 83218184,
     24197388, 117830100, 58662356, 126837286, 95453051, 89969774, 45855662, 10902953, 75332563, 66582595,
     25288114, 23000453, 75049665, 92135490, 5657877, 126137550, 123845793, 87871711, 124600202, 94398308,
     77283671, 23190491, 63588637, 39337773, 53312020, 78808178, 100514214, 116172498, 77654405, 74871100,
     95245441, 104500872, 59476616, 51984157, 53685848, 45344247, 97040881, 113238807, 24294345, 73595803,
     45903595, 30847336, 32264570, 62514788, 27633528, 103175597, 115882274, 64604547, 41888826, 1885697,
     98887980, 81970742, 6514582, 78968864, 124089980, 5428970, 62910252, 92676530, 99862624, 79647541,
     14247477, 118028397, 81010737, 105137133, 108958798, 115617530, 38795250, 131139385, 12479152, 62565399,
     51401610, 85149126, 103247881, 110848347, 102266772, 10258957, 8614609, 10625298, 43509110, 40330778,
     122878307, 98095892, 38742166, 3686165, 11568431, 59786217, 116543256, 84671385, 110037833, 13557373,
     59810981, 111110181, 93523751, 118455867, 100813384, 76650911, 112301102, 29873573, 25398181, 29248226,
     97990056, 99297538, 123951279, 15128220, 105868192, 79907464, 70067326, 46484054, 52874414, 133455084,
     131477626, 74446692, 133318076, 45305804, 108000926, 23660656, 67976990, 12029825, 119866137, 89679998,
     117365251, 40757181, 67694751, 36552350, 17717007, 89001333, 82171028, 90762085, 18074522, 87070312,
     44935911, 1443415, 76314774, 103963914, 67354901, 101026115, 86445561, 133338161, 110122606, 126551586,
     127298211, 104259528, 41652791, 125320508, 128065819, 77663219, 43291136, 75806147, 46782060, 44255950,
     101486010, 44267020, 130968492, 64260879, 68060025, 118806656, 106807480, 27593980, 110854136, 54998824,
     42273647, 97057154, 82854659, 70055198, 125941845, 94133113, 2731725, 53057207, 16663332, 96620251,
     117103534, 11157489, 75982506, 74792700, 56334709, 115659483, 106461278, 1363444, 59573532, 4055524,
     18649458, 16371913, 46978076, 54514745, 102085589, 125955814, 86129228, 23691219, 66491717, 119885582,
     1501805, 98900833, 133752953, 6743592, 10597424, 74983478, 37337543, 93264291, 106034711, 14708818,
     125857126, 44800619, 92338690, 104898971, 51276100, 76134631, 100189208, 116131045, 89674552, 113759325,
     77621470, 53175458, 105421735, 12106047, 74192058, 90065550, 72226745, 116989218, 34670892, 96781918,
     104354446, 71672670, 14358123, 110715226, 12766307, 119881162, 84485452, 61334109, 6212455, 52350745,
     117408825, 99214010, 25871138, 1185930, 62689465, 23671401, 34891919, 79101111, 64700862, 13688181,
     82712218, 3832419, 26410387, 1509591, 72994129, 93930227, 130575690, 33698533, 20065298, 83666930,
     29325953, 89409611, 26209184, 108751115, 14323232, 64937626, 1648786, 40228463, 128674665, 101820001,
     129270042, 9185313, 5251480, 132858830, 111834114, 124658110, 77708807, 86215279, 27861711, 14307354,
     118454807, 123171685, 15593197, 63600182, 85923776, 128700258, 90253212, 58703054, 93783848, 92498077,
     31784763, 25023998, 20053463, 129866664, 84691196, 68239074, 39432106, 88279910, 81264436, 82117501,
     99253163, 66853663, 4361426, 61094826, 97374734, 54747866, 131392654, 114230479, 54122897, 13306393,
     77148497, 8349953, 44234329, 114326419, 118116514, 93991575, 29843879, 97745868, 13409529, 121084787,
     67481326, 118030060, 59630638, 15181637, 76516394, 46294436, 27376712, 2019329, 124628852, 106845873,
     71739885, 89859338, 52197233, 91548581, 100286897, 87951912, 5163511, 29399117, 123621811, 47118047,
     111993877, 95434868, 34466597, 11984249, 60837586, 1943552, 5242052, 82144509, 106396184, 64483134,
     130649205, 65293832, 80031305, 77065839, 131315036, 104532807, 63384117, 131505865, 116515138, 110686613,
     113235952, 59527113, 124249232, 35458617, 61682002, 123854726, 68258618, 1476328, 4679508, 79214873,
     127676753, 39308608, 11817050, 49931910, 77993091, 69570529, 80896448, 41220276, 23379865, 132312669,
     47030133, 117895012, 40258305, 97799328, 1225989, 121127489, 53682050, 67175286, 51215470, 105045197,
     96397346, 122424952, 93890634, 117846117, 127231348, 107632783, 116894657, 133684505, 34393129, 2939698,
     82005386, 35373819, 92982517, 70740676, 105877085, 110398274, 18828916, 24121158, 44615947, 109386840,
     82423144, 44985394, 42277936, 62544396, 122903671, 99092929, 55616776, 74933066, 94984055, 110217139,
     9179808, 121799662, 120514694, 114115906, 130553584, 21902926, 129520664, 67275627, 45798421, 57585853,
     111853071, 115807032, 131958261, 47188512, 14365171, 17303763, 9951357, 39834467, 89170269, 87484680,
     132655331, 35638097, 4108918, 72689344, 112452927, 9067483, 88609395, 47847225, 63758876, 113173240,
     19152264, 42325708, 68051011, 11508530, 66903030, 95396394, 27034833, 106902137, 120814279, 44889134,
     99303394, 69133993, 22253028, 108468468, 83416988, 95569030, 80274365, 50163391, 125927595, 31579361,
     131711387, 47204629, 119418189, 21581509, 7305556, 14298742, 56528129, 12285718, 20623209, 94031251,
     100782785, 41224952, 11064396, 111007714, 111192161, 35403603, 82649380, 46657908, 86188186, 71970232,
     126820464, 41538875, 116642339, 26728363, 98255669, 121033603, 84273991, 117347277, 73381990, 89356637,
     69517934, 127917602, 3874819, 127125374, 26308219, 15278297, 92445584, 10954870, 55679698, 20623046,
     60530441, 59888872, 113533213, 32706907, 51837097, 2286965, 97711937, 107886177, 107914013, 95139995,
     111660527, 88323453, 31498879, 123767126, 81543417, 67761264, 62675843, 104605672, 78792921, 4603737,
     11585310, 65349387, 25480427, 56625877, 32958171, 7846801, 105256202, 128074083, 105119637, 11062017,
     51396877, 79586062, 81275725, 33331483, 59124652, 5671890, 72113187, 115906703, 35802141, 105701259,
     46149054, 90224626, 128553692, 80762042, 118765444, 100669897, 16274223, 34424516, 15959081, 119320352,
     116081793, 76502704, 59521504, 59785772, 85906087, 25788488, 80950271, 7346594, 81109954, 127682594,
     121604877, 53108209, 20615920, 7940268, 115514184, 106008046, 34893025, 39904837, 10187575, 96084719,
     39849934, 14759069, 69107028, 75072774, 107700700, 100886697, 77875898, 75989318, 130195694, 91430411,
     25386175, 23575318, 50894913, 108669855, 77019175, 36073516, 79297196, 57781876, 93436389, 15787508,
     67939798, 56075630, 13519156, 117946249, 104954434, 96036906, 106624182, 37661512, 9569444, 105013048,
     109135298, 78028506, 787944, 96878603, 91842698, 18912171, 83553138, 15112678, 39894687, 92932540,
     12023971, 48897899, 34577419, 114912298, 83887567, 86426652, 71640585, 4334471, 109185422, 58456980,
     23059121, 27298714, 83266722, 33104835, 40738789, 78286276, 5727172, 40336174, 25127990, 92712286,
     14871188, 5938175, 21387029, 62902868, 5070853, 88780492, 130972960, 129804130, 48293243, 100255209,
     101666202, 80851056, 56660037, 8493574, 68587079, 28892492, 33780339, 129445707, 126774119, 37593999,
     28382594, 51384089, 128831500, 44217859, 104653788, 63297389, 115938932, 53340184, 13050754, 113176407,
     132432886, 117300610, 87626128, 99617747, 77763301, 76217517, 76143548, 84354880, 59792831, 107902623,
     127969031, 81503493, 131664190, 3364464, 127816206, 55497751, 18983469, 37186985, 71123152, 113224506,
     93998882, 113045259, 24621236, 73267313, 119557717, 119724043, 100964482, 250573, 16193663, 58751026,
     39821706, 32049074, 91362440, 99204743, 118317724, 50973103, 133974802, 131754298, 37067513, 20048530,
     112212830, 43277505, 78683127, 53214570, 48603619, 34036797, 32242069, 100534917, 14171743, 52092195,
     4649082, 3826204, 57743511, 80625787, 16232584, 113633069, 27360693, 38108186, 43209212, 44621122,
     18234419, 59317117, 27078318, 27331900, 34394444, 82784072, 130919745, 53089362, 56905123, 3146622,
     82871432, 48096770, 72586541, 48894500, 128810956, 15370012, 110866375, 110651562, 124341454, 117112565,
     116993474, 70960938, 99066555, 79700742, 117587102, 91953679, 44580642, 29587182, 81581810, 69348638,
     44422481, 54169229, 124216901, 100648006, 35947563, 117880056, 134180123, 16021310, 31735731, 83387411,
     45610697, 109382919, 99660151, 84185468, 76755185, 31299960, 28799394, 132189295, 17063916, 50859360,
     117557305, 85886949, 27815314, 51603489, 68461208, 120282526, 112381588, 94306253, 65200773, 13094119,
     64005136, 59635362, 22006213, 112362788, 125627027, 134111473, 80743701, 131874857, 89648239, 110635543,
     52807589, 73131557, 95519017, 77274820, 50856730, 68001181, 23981416, 79000776, 47807364, 72798880,
     102240768, 29976203, 115940388, 81611376, 68997367, 76463884, 88537971, 99322371, 125424156, 22989914,
     87252673, 58189701, 130994169, 95034844, 33925417, 13020309, 117093900, 122912001, 100776611, 91240465,
     76575876, 2654065, 79528924, 123773469, 22535834, 48654346, 2253901, 17684750, 4190846, 71368640,
     119583165, 41964483, 53439452, 104408725, 80763131, 121838243, 59399420, 84028626, 117934488, 78244573,
     98932489, 8699346, 50218139, 72464428, 85715002, 9400009, 28760153, 98411892, 126567249, 108940037,
     21482558, 35138116, 122365917, 53635154, 71955051, 4106854, 19799067, 100219505, 132045903, 48783059,
     26695733, 107655948, 91050275, 543211, 34875740, 101182047, 17969178, 16341984, 106215793, 27651232,
     119495325, 69834089, 119720780, 15164051, 90330751, 12390402, 86226790, 83379675, 21093077, 47993496,
     133957031, 73334851, 43988397, 99133227, 85693756, 117837974, 3430763, 123632138, 42462028, 126966767,
     70168667, 126999733, 63583819, 3506399, 55478540, 95335123, 51371175, 357345, 2558068, 121891678,
     86712400, 15024820, 47610565, 58125491, 15134625, 105679841, 49441094, 23691139, 89923112, 46649956,
     99820301, 55892262, 55787833, 53674819, 15585676, 133263603, 84025969, 96744122, 80530388, 25943269,
     64901014, 117849557, 130169326, 88427087, 49168220, 89356308, 70153760, 100360984, 4038107, 27542903,
     17841174, 34612149, 26070408, 85789503, 25075352, 109975268, 23430024, 33224151, 14542347, 27575858,
     123403929, 134058879, 78828075, 10703777, 65729617, 12965272, 75408641, 21786924, 38001150, 992658,
     116288159, 7517803, 98759067, 87152047, 57294190, 40464573, 2956789, 13721629, 31352, 131859663,
     4740430, 23177429, 97424596, 34297674, 4147385, 46303514, 60340904, 22217434, 69572613, 90280026,
     49745461, 60495439, 39912244, 100096144, 126136906, 55576665, 128081799, 32708760, 101319886, 99768029,
     72103230, 19640456, 127762475, 113524100, 94216424, 23719495, 31017935, 75825594, 18806967, 27850801,
     19566083, 20474105, 13936544, 119249358, 52309186, 90509334, 81571003, 67066568, 28001773, 71896679,
     10930143, 96471421, 45225908, 14196298, 61430645, 48624724, 118045934, 66546105, 119614947, 5347646,
     110298352, 14653486, 34924159, 6433766, 110503043, 41170176, 37690138, 129670127, 78562575, 110719164,
     71746678, 62928944, 31260411, 9764157, 72598015, 129299667, 35330402, 85743098, 106914295, 45866202,
     31554898, 64919663, 104907770, 32404444, 25282946, 27254121, 1169179, 7394452, 58908794, 75766908,
     118338860, 45967536, 85241176, 124381438, 33879126, 6303294, 67876107, 112393384, 44448734, 112077556,
     88917218, 113610046, 38675564, 123890905, 22516697, 80768953, 134087213, 112372350, 5217128, 89516958,
     18247893, 71774817, 42850969, 122155593, 44600006, 98732453, 74349482, 67309332, 66440010, 82317263,
     20809126, 72884617, 111362758, 71722315, 95199899, 68506600, 24495027, 97273577, 22706885, 74364081,
     15021967, 43624624, 68636896, 23293822, 85420414, 27789333, 96618300, 77567798, 31990344, 81800965,
     116172620, 3358594, 121031595, 20633466, 63483770, 82584140, 16086706, 15434574, 23328505, 88166041,
     96578394, 121886366, 8903255, 106874518, 83800262, 105590420, 96150060, 75959092, 2724563, 28342087,
     19744775, 104605349, 32322022, 36643222, 58809109, 127113583, 114148575, 128372092, 107201270, 80983421,
     52233980, 76655958, 1607644, 24037634, 72585980, 50881891, 26190782, 26677071, 38813037, 10709034,
     125070534, 16025798, 38628977, 101032306, 52974053, 70375474, 90229444, 1495319, 125147965, 130555529,
     8208739, 114142388, 79164814, 2596777, 88862570, 90017617, 16931715, 31284709, 13683406, 86309072,
     44742591, 55683421, 45481628, 121281227, 93746037, 73377168, 129997123, 114091401, 88916199, 64807808,
     57678324, 7698900, 133801021, 38371526, 125383214, 18140992, 59046271, 125952845, 63114514, 30287156,
     69468142, 108904922, 14132367, 55366166, 86424093, 93570127, 95625531, 4059899, 63839289, 14127963,
     78443453, 10857126, 121939056, 99772739, 83469408, 56653943, 92467365, 18212929, 118543582, 39598602,
     98519353, 100314762, 61449838, 75539789, 128438655, 86221101, 127012710, 92505953, 10755834, 12158639,
     134209743, 125698399, 22370225, 3646159, 118039011, 130154549, 86195459, 56981115, 104816755, 23459036,
     46473688, 121707647, 38430533, 91071972, 23662162, 88618185, 16305901, 23625204, 15299207, 14295965,
     22751963, 103848303, 110062398, 32898658, 72194965, 9747645, 115237751, 49932974, 132395495, 58505455,
     59017404, 82150759, 23708282, 66264479, 120316070, 72843248, 15156723, 29584777, 68994014, 33652818,
     113390157, 124959973, 16734851, 93925506, 35977559, 102457121, 87442415, 108419265, 13067272, 38387770,
     116145940, 23022820, 100343351, 2052125, 74424894, 31370259, 104363877, 15915551, 18725684, 124953879,
     113693878, 114443097, 72304948, 45077210, 51481198, 95407069, 109269352, 116080124, 61356364, 106030096,
     5773261, 9746196, 93748931, 9026264, 4884888, 67853514, 75518668, 24572551, 29217416, 133860038,
     55203828, 15883303, 56292495, 122659264, 93747527, 79879724, 85597116, 44622738, 47225159, 6990433,
     30747047, 125905259, 104438777, 52956520, 8746434, 86089113, 78342511, 25982514, 97588103, 100448719,
     84349581, 31303436, 3535182, 86668672, 11065548, 5740702, 86222461, 101047219, 105554433, 82248465,
     85017282, 59808854, 132183020, 25589191, 93980561, 14356296, 57182833, 108078368, 128466486, 902139,
     31889665, 13589417, 14922244, 88283904, 52393101, 52666214, 3749917, 41809430, 76197046, 76745423,
     71640781, 50055825, 25326070, 96083805, 81949614, 119788410, 63001339, 11497173, 93847684, 81362213,
     106093576, 52208030, 107230048, 67289821, 91745005, 117722753, 13364185, 105941804, 77046438, 41627189,
     89530722, 51270064, 26228222, 13350583, 49880236, 70795785, 69936071, 86131714, 36422254, 86573296,
     11056765, 40695612, 38354113, 38965690, 55559283, 93240002, 103796965, 17183420, 132310675, 31080081,
     113537370, 57392236, 119822404, 118442962, 131963908, 91055331, 68720965, 36022981, 83054275, 125448631,
     3874790, 13196901, 96720163, 26666109, 112229579, 54305814, 46393755, 91658449, 81832248, 66801808,
     12923340, 123316246, 125812527, 78813320, 57526409, 106228109, 61535805, 112096077, 29761080, 120176194,
     116838287, 42495790, 127930890, 118469990, 55324777, 121663577, 70202115, 5501956, 38490386, 121627194,
     94343739, 64207005, 83149858, 77348860, 113583174, 45085559, 2371053, 60371562, 67643955, 19675322,
     130077091, 58841803, 3268467, 22919224, 83908819, 108311331, 50482570, 107030266, 15537252, 27929373,
     40290831, 96841363, 129227459, 108835190, 28786507, 8457555, 63716269, 88719691, 116307182, 19428810,
     14688903, 121179423, 2994814, 14679096, 80943337, 39297683, 83697050, 65552466, 5053135, 57292687,
     112492624, 27427894, 103019358, 69188925, 79949055, 20372368, 32612617, 73104992, 123926747, 937984,
     29592152, 119027398, 134120617, 57968813, 73972816, 125001751, 121986975, 84194340, 73191891, 70497966,
     81305023, 58814861, 126379522, 87287959, 58727771, 54821771, 42033135, 114336325, 129815968, 65601947,
     133449390, 4656878, 17141847, 96058377, 115266783, 22648735, 102136528, 21628287, 28203591, 5717303,
     31337577, 58210474, 7784353, 1997, 112330297, 42089824, 10879226, 41884979, 112290637, 86487544,
     106766455, 83731889, 132442220, 4694771, 15080935, 124625431, 108765004, 37414717, 11148244, 69943236,
     14905387, 85210875, 113553772, 66286218, 18873521, 36364611, 98872681, 57769767, 132391976, 73806558,
     64783747, 94339800, 56697542, 60715941, 120146707, 90890521, 85450048, 2428707, 132113847, 118147440,
     92767885, 117499261, 59885935, 68980974, 6107290, 23490262, 119799375, 99125953, 101267709, 120843022,
     18628718, 126188461, 92698140, 16670020, 36228248, 80281321, 59032624, 66650423, 21266639, 102208610,
     11101255, 99418867, 62753004, 48035599, 95899152, 12308233, 95419546, 104118772, 114182009, 37025329,
     122460634, 94241513, 100054180, 30465850, 33507301, 11171335, 103991445, 75130133, 98531090, 117308741,
     15546129, 43854478, 1975141, 11256031, 122371903, 77122064, 23096044, 112057954, 116891671, 68837867,
     127085853, 11748772, 56319173, 64215959, 70881860, 16280041, 9785307, 81582775, 10320095, 15217358,
     114165210, 25056759, 83651859, 61030980, 34768327, 74816014, 25739161, 122486185, 10257721, 80188141,
     102754382, 8311492, 36526113, 127443413, 7236282, 16927709, 110514096, 110287821, 42163231, 116912754,
     22704455, 42561945, 75909651, 44788581, 49254918, 85853543, 70533609, 79491092, 61523437, 116507552,
     72616898, 72799720, 35815022, 122750074, 67322370, 67512430, 128318935, 1548602, 28324210, 100331052,
     56190835, 95266052, 62032084, 51806277, 60464028, 88502178, 45966371, 82059606, 84273580, 47740559,
     125268800, 43574887, 20143645, 34035484, 59998374, 131250081, 131537408, 131028145, 114106, 42409122,
     93030033, 24749681, 49355706, 86110107, 67815694, 133787798, 97532472, 91392281, 34384458, 110089185,
     8881920, 71496273, 85823966, 129915694, 132538117, 33464674, 61070964, 81985420, 125563570, 27255640,
     68951302, 47958942, 91167644, 64751982, 88788343, 34747085, 102951223, 102530328, 87320467, 30286792,
     92041216, 130077538, 95570866, 1707961, 33840743, 99784678, 118488202, 126287327, 81797140, 624358,
     67317974, 41281378, 84754110, 55341191, 46245720, 22737955, 32235385, 47619270, 122739979, 130409410,
     28448630, 75980733, 48003742, 50926416, 79391194, 36969430, 66625444, 8870021, 12379779, 105269391,
     36530218, 84171324, 102851389, 87707788, 18460296, 13946760, 64637126, 103802841, 14747547, 10914228,
     10247770, 69524650, 131317914, 26107693, 59014116, 130089260, 62776636, 31877925, 9841956, 17549522,
     21565786, 42121464, 69219257, 21938571, 124864722, 105379655, 125909856, 43572107, 53571837, 93110180,
     68721778, 93687458, 29641208, 40342268, 111953475, 73604234, 18566497, 43644430, 41079187, 61552344,
     25739415, 21415730, 99210430, 108172920, 116491941, 65943020, 59154028, 62186840, 44370441, 74991473,
     123031187, 113228496, 13305186, 19436539, 102653053, 123804856, 42687262, 42531997, 121861141, 80196805,
     34444177, 94434189, 116965189, 97773771, 114270554, 44685120, 42051113, 74732918, 27414627, 92259850,
     84906470, 100929932, 10156286, 89766463, 77382012, 84503687, 41398415, 64120739, 89582871, 58846036,
     14128067, 58306201, 92473984, 87674882, 35865189, 94597462, 77249110, 43774508, 96952867, 10283936,
     22427478, 123300822, 43697957, 42970230, 95865121, 19174227, 92460626, 7155145, 119670141, 69935673,
     3936452, 22578361, 52289944, 116371296, 46871782, 55118666, 118682178, 112087973, 67034415, 123077398,
     44029897, 57263290, 21401542, 9825888, 59599455, 106978896, 45527732, 7155206, 2815441, 113107520,
     84512036, 59517, 119312506, 11824622, 54552832, 20905945, 60507024, 129043029, 117975284, 35749141,
     128155226, 128360512, 128934012, 119054124, 100156894, 111824143, 24614820, 32182508, 48600960, 112454030,
     45576207, 98060145, 107612993, 97790497, 105508490, 107111986, 109861036, 25685340, 20613905, 71856455,
     30415844, 35971541, 133310820, 103384722, 45653311, 115281676, 79773435, 69002077, 57360516, 68960301,
     96294902, 38910336, 680867, 97355539, 108356804, 75489005, 122035825, 43212833, 93243732, 65801442,
     47224116, 69889361, 93026467, 10326060, 28316465, 60223575, 103341328, 114289007, 107249195, 67523664,
     79674727, 21699959, 100938360, 3843741, 93002658, 47356431, 103244865, 27497250, 121206278, 59015004,
     101944280, 70732343, 122235529, 15187261, 95596568, 82991114, 11211390, 109957859, 26864122, 72596511,
     122210901, 12516446, 11882830, 69846656, 116530343, 109036516, 96379390, 62391683, 18794302, 76524826,
     118963163, 53674035, 96119111, 46107716, 29064262, 57081197, 46107261, 20171397, 91254887, 22804265,
     83834684, 73535047, 78221283, 11501980, 114573388, 111487405, 42711779, 31911141, 114913238, 25924326,
     129532020, 74839229, 114166608, 84625474, 58616038, 115991471, 32877412, 82100205, 67178740, 107817880,
     53307009, 94995853, 89547032, 118578005, 11852322, 94691975, 39319926, 69951341, 12273453, 1997143,
     16493591, 59756690, 41689260, 30203701, 72628722, 59587304, 106188030, 84754281, 50237938, 77664180,
     119081843, 120179117, 66705015, 29613192, 128493335, 127393935, 44872471, 44134132, 43464975, 7839473,
     21663675, 125689758, 106075902, 95745327, 79452039, 130966684, 127439638, 73098506, 66631835, 118866184,
     102641954, 50375627, 22082213, 56739699, 125012500, 118248074, 9842231, 98880852, 25392633, 57048141,
     132804199, 14731872, 9483666, 34055280, 128619718, 28738215, 133384203, 119497113, 8630563, 108629525,
     56306673, 80139630, 106424649, 66124624, 130184389, 86040026, 72552662, 52012699, 121756063, 110266821,
     56961000, 66058078, 100156584, 26252679, 9250633, 76618273, 88062418, 25456063, 28266731, 74271518,
     96987398, 74836127, 37925426, 42648624, 3730336, 121535163, 60294994, 35278078, 30967641, 99567606,
     67949752, 133937138, 897285, 55598397, 58065582, 83361973, 29563584, 783213, 48365709, 22871009,
     81951434, 103756504, 99255367, 11723098, 64681744, 107362869, 57376643, 79318227, 38524856, 1820692,
     81695028, 73998886, 99451945, 111841601, 32115565, 17926436, 16924698, 24239854, 94400458, 45725865,
     35842994, 18722093, 101554498, 65291454, 74467627, 16621927, 12444178, 101239433, 46067980, 93265346,
     125136280, 44590417, 111904719, 76251575, 87558239, 84004790, 133735573, 86491258, 133264677, 85245266,
     105327963, 32862986, 117169502, 95425155, 67098335, 71590841, 119918310, 77868045, 38390669, 61923462,
     126603452, 62104570, 131713018, 99177241, 109970239, 3487507, 128860805, 93109203, 91477377, 25267137,
     91238561, 119284480, 14995504, 41123369, 97389757, 39936088, 11696755, 47876564, 120800649, 8866649,
     108112601, 8099524, 117562857, 21695556, 99308913, 103310062, 37314894, 43041045, 80791784, 66915301,
     65654753, 108556179, 117652795, 102001182, 80180356, 123085671, 55047235, 38105707, 96321590, 60452909,
     104595986, 124510063, 85276087, 58076282, 49727439, 3384152, 89408589, 87264636, 76570262, 121079458,
     14218848, 47560341, 36376813, 27194221, 19657367, 39755789, 68758991, 12252069, 15033449, 108138234,
     102568105, 107941657, 79303495, 82560675, 18418420, 67154232, 94353434, 16898299, 105432981, 87947398,
     4418838, 37046873, 98455931, 33535420, 63632874, 38920709, 120630719, 103053843, 123085669, 123637542,
     82955103, 124147099, 106824877, 81630896, 25107579, 26152904, 99109889, 14365692, 93910733, 56359047,
     100431998, 98643267, 60563231, 60783793, 31523114, 81336642, 50964966, 120735305, 22422823, 79058264,
     88744200, 79135527, 91067777, 17842276, 83319075, 130498488, 105682346, 117070968, 38538329, 49708068,
     81399604, 100036771, 107035401, 56402551, 84526208, 99783301, 23536326, 61219373, 38334804, 132481183,
     41696527, 88323385, 41953313, 60274687, 91832698, 65780626, 50617128, 97325812, 27839644, 75998589,
     127299008, 39053231, 77911918, 73311914, 122158066, 118268795, 57800698, 126478547, 15875933, 80631961,
     9497081, 63039786, 122402368, 140621, 3585604, 11411385, 10100794, 125095655, 80187589, 132421782,
     54956525, 100152337, 5233691, 80316987, 45745327, 33726654, 78829027, 81947130, 22116811, 21527836,
     50296950, 17933552, 32883281, 95876319, 67844312, 56416432, 119187401, 14881446, 79060073, 86617584,
     101377610, 93823203, 109596774, 84363464, 1824028, 25521521, 13314699, 65844259, 109924682, 107448834,
     65980997, 23499197, 55902936, 112585638, 115854732, 98767954, 33964567, 10560863, 64344099, 59910652,
     107319052, 95568367, 95110653, 54087380, 9056130, 99777143, 34977282, 123419166, 115636287, 40726469,
     82331228, 5144395, 53140389, 73947076, 120466181, 93595407, 70810004, 33361221, 118236415, 120919268,
     36574637, 43744007, 82387478, 31878527, 50801089, 626761, 480572, 120246878, 88373374, 98389112,
     69084217, 106894768, 43672695, 119378279, 42440267, 110187979, 55875166, 1649324, 84923414, 94952265,
     129851130, 70706497, 97627849, 110812916, 126734889, 41592155, 40813823, 46060945, 3469178, 26834293,
     20782419, 54464016, 112720235, 3045766, 13485920, 97122054, 101900381, 103442599, 132946883, 49086397,
     105620004, 43504872, 65755480, 31040314, 27373661, 39204989, 112750676, 70655927, 25634213, 108881960,
     894060, 124380187, 64236772, 108616978, 123843205, 69576400, 133707725, 55010362, 68939600, 5655608,
     5458543, 47320225, 62462213, 14123955, 58810241, 78278006, 87818844, 62253311, 50611590, 60965637,
     54589154, 20809834, 114749040, 72737875, 106995022, 40629862, 33590898, 122229549, 73140131, 99920462,
     6001530, 17997818, 67460069, 99856004, 1738539, 17169753, 84662288, 11978547, 52086209, 15433370,
     125073993, 51593619, 67948670, 29011207, 22357519, 42951767, 101583244, 69928750, 52452100, 73861676,
     74607230, 46736831, 97537187, 80743098, 53853672, 49780034, 70945521, 111309873, 6627253, 94892813,
     41456011, 15095778, 9751924, 8119545, 66733531, 132002086, 64723623, 43677436, 28387659, 40878582,
     48459859, 112256260, 1366451, 13119488, 127323540, 126695874, 116396192, 72719027, 41814309, 89080709,
     132966904, 131460443, 97983649, 61092715, 68382930, 94341378, 41111608, 58676635, 94142948, 19473665,
     111266774, 15271955, 105932643, 43807573, 60343231, 1554887, 117205736, 5169652, 29159103, 130074286,
     106332564, 29268469, 131610602, 122361635, 5532982, 85739301, 22237833, 107332124, 90839062, 22149626,
     90602079, 76142239, 18811494, 115937269, 2890576, 125571074, 124621842, 93048314, 132779214, 111457252,
     122353421, 6466780, 8454520, 75896870, 100122037, 14979392, 59726853, 2646479, 49493783, 63844692,
     40408967, 114150080, 95331473, 26194124, 53399261, 17136147, 22306553, 37987986, 4295023, 23476071,
     6641846, 112669032, 56633728, 68304629, 97316590, 10787904, 77142008, 126733887, 129441398, 79837300,
     118839846, 55188370, 120006151, 34142608, 72360889, 119649164, 69217567, 112630356, 93153107, 109548150,
     85091295, 14788442, 23383750, 124377041, 73448687, 113303161, 61231005, 4599787, 66383122, 2538982,
     65588898, 36412552, 68164105, 107580289, 81335760, 45484898, 41974980, 46307545, 20594614, 121801822,
     133748002, 114553188, 100922165, 72999564, 37641774, 63811842, 111128509, 92164479, 105299432, 96301143,
     44353293, 49271716, 38144551, 57953425, 26279843, 82452585, 2288784, 105626297, 33380379, 10543861,
     122252238, 71439564, 130317298, 8949255, 84752685, 16978606, 130816362, 51047040, 6979469, 5896348,
     73430783, 2162305, 130266565, 95123376, 35404317, 38205645, 3073441, 121908610, 125081543, 27953749,
     81699366, 103507032, 125528626, 22310129, 11131200, 113458337, 111615541, 116025446, 78496899, 68388842,
     116274946, 24871375, 42188217, 26832069, 3807518, 6483810, 84998425, 11338338, 45862570, 93375327,
     21057628, 56494313, 20795719, 48281151, 12334715, 120782234, 81499860, 91572671, 104250973, 41582721,
     12362695, 86595814, 25623063, 18513806, 110465951, 129388751, 32868955, 42527750, 78951413, 34426088,
     25148503, 15892791, 109716432, 87346357, 78155702, 67275230, 11895581, 30775903, 45275666, 32402739,
     89943731, 5636256, 31874592, 120757648, 17579658, 14983701, 53248910, 71026230, 2892775, 122541157,
     7793625, 45006277, 15390261, 57792763, 40210458, 132635290, 109459326, 94728303, 120005754, 49997121,
     53027170, 4551678, 99308783, 11485487, 110666653, 54019738, 130771804, 70293822, 29911366, 72107253,
     94001892, 71846962, 120360552, 103755530, 100152702, 115847206, 5695733, 133238690, 111929101, 16964038,
     103174514, 124492158, 80219046, 64539279, 5510192, 100605870, 10834651, 276110, 1005308, 110240403,
     74283517, 6700243, 80272767, 73900941, 13602272, 79676284, 112061408, 1100866, 54848733, 123564742,
     18626923, 128699548, 78625708, 43269099, 35453337, 107613688, 28802432, 108595653, 28308568, 61746706,
     105752729, 69842118, 13263189, 8368820, 31731162, 99303606, 18648232, 59175670, 89418958, 74369336,
     90916522, 49728211, 57473231, 125293010, 20698744, 20554169, 2704310, 95558723, 124613104, 52330604,
     80851083, 81778628, 8105567, 59567210, 85538635, 23828365, 111866319, 45832783, 27353512, 20771342,
     126792910, 5324685, 22603271, 70837190, 59037722, 54461108, 58714017, 17174607, 129262659, 78244141,
     64458226, 29610169, 99007273, 123453711, 96920389, 86674218, 37936324, 2231124, 61787959, 103853809,
     61852116, 103093272, 44480589, 130221025, 26527063, 72097769, 22025534, 96853151, 132703499, 124143927,
     124335802, 123031281, 21591740, 51486880, 133373863, 36399877, 45699771, 43020109, 101963988, 131652551,
     62757831, 115077198, 63365237, 9407642, 57097293, 121505127, 4457250, 41587642, 69886462, 109386165,
     34035438, 35113960, 123467700, 11734669, 84769963, 89691590, 37770563, 18835342, 112359884, 74907114,
     78257726, 27108448, 85263269, 97455821, 98920689, 74893824, 97979510, 61274404, 29001699, 68293354,
     116512675, 62196233, 99632688, 8679772, 101875550, 32128855, 99788910, 26975169, 31424918, 122855663,
     131668383, 104625776, 97579049, 133379364, 122918141, 23260846, 38172506, 30423146, 41190330, 133064818,
     118241346, 65432692, 133940088, 127659154, 93749675, 42264802, 19956303, 129696197, 38689349, 13643460,
     72849023, 18338902, 1203920, 16224604, 45304331, 28344976, 76025829, 35377161, 124304482, 47605832,
     92569697, 14830789, 119758421, 76864967, 27673757, 70824022, 117030390, 76956341, 29342064, 51012522,
     33797081, 112087264, 88295846, 54793367, 32860680, 54722305, 1646064, 76780051, 94151982, 128348961,
     8652929, 52607485, 85812240, 91304503, 13887595, 59150698, 67957873, 89664510, 120620361, 71848855,
     56131048, 59735864, 27413616, 26641032, 119662129, 43337744, 123112390, 87790592, 63700750, 18371290,
     99113779, 39002894, 32806054, 80515641, 2638440, 66420089, 30181738, 101424229, 80080494, 89773626,
     105249363, 66019955, 19424524, 69869606, 18947921, 84964909, 39952056, 72511328, 34894113, 72073748,
     47135756, 35925918, 100579717, 57609054, 48901829, 90727233, 99887655, 119813721, 87702683, 80128567,
     122789783, 844731, 79043832, 73653243, 130505616, 132367987, 50086307, 16535657, 73331238, 4054689,
     26821484, 133276807, 27457449, 2052177, 47166148, 95748647, 114562983, 69824481, 121148561, 39192767,
     61355612, 58865111, 47250956, 101535347, 43992618, 62867780, 75972101, 1604188, 61659502, 67213510,
     133269141, 104112614, 92369782, 17224418, 48305732, 58017118, 75778522, 84524684, 62371945, 32116762,
     128763167, 96658877, 24722012, 87613155, 107891962, 103382494, 38014457, 29626171, 52721144, 7707760,
     5442499, 129431397, 33591062, 65633416, 42810024, 111184099, 35479714, 82706939, 85029819, 14790496,
     16334997, 61081065, 41047513, 103299617, 72866305, 52532707, 71521127, 102002510, 78664389, 14973838,
     23271698, 15274092, 34969034, 58338283, 103333830, 66029026, 132941173, 128758893, 22605936, 72018977,
     11476850, 85332127, 118130455, 35918529, 133925241, 50827558, 54033048, 55849615, 129274941, 68425576,
     79769216, 8237000, 121028313, 50960456, 5724005, 7319787, 2956056, 3536421, 112626580, 124042956,
     62702453, 51492472, 14442098, 41824596, 103811646, 43879613, 165539, 77285732, 25970532, 18259624,
     99619173, 27180296, 99632023, 99526196, 68954247, 94331544, 81813894, 26760914, 79874444, 128221542,
     34864103, 20527062, 47113416, 103643660, 83457521, 40069594, 31412649, 91871339, 106006138, 61356290,
     123061391, 64210821, 84201103, 107176211, 22191855, 125911689, 38114341, 76798835, 78990752, 32956475,
     59862033, 132060520, 52848086, 7569198, 2502654, 48840253, 52306218, 53995987, 50292952, 125004332,
     15258626, 131650438, 132438720, 120462317, 103886302, 133104267, 129560658, 73146334, 33197943, 102727488,
     91563803, 48503620, 96448852, 84702236, 33195450, 81261241, 79825447, 4041108, 96988159, 131101409,
     79569624, 72628910, 73191781, 39756683, 33973077, 90577976, 35520863, 9404114, 43097250, 29688194,
     67138511, 85055387, 56037539, 34662865, 27679953, 106657505, 7646807, 82444875, 133090722, 55647586,
     47900437, 78530916, 118887574, 114892196, 120107712, 121082423, 21813120, 22735315, 25163839, 95114472,
     30887281, 26379677, 378034, 108672751, 29698541, 93963880, 82554337, 116165494, 94080833, 78416189,
     23247871, 57440021, 70717019, 106565259, 86304541, 118524006, 97063488, 21604673, 91855635, 114188710,
     101556576, 2024051, 11671859, 48273365, 17415666, 49750913, 97304144, 71314535, 59974514, 6578985,
     95058841, 8158950, 97624190, 18832376, 103650286, 61767291, 95601059, 13745061, 57055488, 57630510,
     120960198, 57212954, 89946508, 43199124, 64709018, 105339662, 110642765, 19547427, 46054705, 15885842,
     46283032, 78749145, 79729232, 121344004, 131587019, 101189685, 25553642, 87930808, 38975181, 94343126,
     13845545, 39655955, 87288275, 8060085, 64034161, 26461079, 64130462, 45413874, 47963066, 83486298,
     49225421, 67991896, 77859027, 52776205, 21325919, 30734121, 64300128, 82197237, 19706554, 85915517,
     68473054, 35417263, 66592600, 99038403, 55180562, 120078319, 42318268, 36831182, 107371797, 65334499,
     31560724, 130417900, 70759133, 107358984, 129559916, 119161471, 49155420, 67727219, 56428355, 112859183,
     91628716, 47909294, 66749330, 75155982, 104851983, 3838538, 119098848, 6066880, 31507259, 33232493,
     67428003, 100151415, 63529292, 29986728, 61379851, 61341714, 85517442, 79389876, 25731388, 12227563,
     37616242, 84537842, 32967914, 96153763, 58472451, 76031650, 42211928, 53641411, 40122138, 6626249,
     127010431, 66996523, 83015889, 119730753, 42384388, 24107369, 13052710, 77370482, 85103982, 9198812,
     80789958, 9987929, 76629631, 30964118, 6062141, 53753117, 81250834, 14084348, 106997008, 13493034,
     75877816, 27162206, 89778789, 87938385, 47507993, 32026451, 50981459, 37318001, 34921125, 6754810,
     102560037, 94174055, 99877385, 112404456, 72500944, 65556573, 68460361, 85972547, 39396903, 86020740,
     130622941, 67060760, 5228015, 130376819, 75815211, 99134988, 41391427, 3378736, 107665261, 122142360,
     129812330, 128366340, 78508180, 9540777, 96875214, 129852290, 27604860, 131810760, 132807303, 16086869,
     60611481, 66947878, 117036493, 67848130, 3652347, 103636591, 44489822, 28633659, 93680795, 51775992,
     23087979, 102653531, 1313924, 122519231, 43825091, 133641944, 93480600, 78196172, 115722719, 12752094,
     25198962, 41562233, 79682376, 106574289, 116683910, 92333380, 102426247, 1677724, 85507049, 75022842,
     65881094, 56086610, 30545529, 128615909, 36981053, 40692955, 75696321, 61132634, 40621016, 124839603,
     94237517, 85826050, 33295594, 18110119, 83687495, 105625469, 28296145, 117890186, 92106168, 122119927,
     118717409, 96372445, 119595020, 46060995, 56263661, 109757993, 124414849, 112811766, 18736718, 89876216,
     52696111, 23834015, 38328171, 133801490, 52287380, 11702590, 7444744, 103167180, 48341881, 87204290,
     80053550, 98849108, 100672610, 111344052, 59652594, 67280037, 123904463, 130471651, 90579662, 113494128,
     99434004, 104252379, 112551375, 104201076, 47718991, 55973308, 102578455, 74345814, 64697736, 28422732,
     38578787, 103425820, 89836949, 73651111, 94795086, 95964797, 6548371, 22811400, 95782195, 26429830,
     128103889, 132609024, 4483010, 85982676, 126917827, 48205730, 57114147, 81931572, 124937291, 4703588,
     52761349, 123613773, 61075749, 123489256, 88012750, 118778698, 40448767, 5773477, 31351481, 25301133,
     88150598, 129542952, 45409789, 88976939, 3423417, 131859953, 39003984, 71903003, 120278913, 40789568,
     98744434, 38486792, 17954958, 32140611, 68382562, 4230218, 80523514, 120071649, 23376180, 131861406,
     110330809, 83508331, 130767772, 47927312, 88299817, 18381902, 105707828, 75011029, 54315945, 40763244,
     33336402, 62134089, 90796016, 31124231, 117395434, 52780799, 98663917, 28130853, 20225323, 31136322,
     133905300, 28664941, 121509875, 133309485, 92635894, 30377202, 28744678, 42296002, 23106982, 55937970,
     15713532, 79355240, 105122995, 78250481, 73786917, 64643109, 132695714, 748674, 23363718, 34683012,
     48410255, 71784413, 37609879, 89895309, 114182920, 73830130, 102719309, 105608298, 97762382, 55199954,
     66550811, 30204119, 36141324, 118609736, 53419921, 92157565, 15324525, 128527966, 95627476, 67964592,
     81168628, 38871712, 72454871, 55869663, 116947801, 96794211, 17714954, 53834865, 84403434, 131844810,
     14455724, 36717381, 34223974, 130750571, 87556764, 74847465, 68773333, 17824942, 117159821, 46580146,
     30155846, 3877701, 48217461, 72881200, 50703390, 15816092, 39814365, 80160790, 90662593, 4572617,
     45132292, 114613703, 53703811, 29581892, 105396284, 58876862, 10298159, 22757813, 87746837, 78204675,
     66514450, 20025470, 55135650, 52958135, 59126516, 40444764, 22969236, 3180771, 17345162, 116803543,
     96443799, 49718501, 43474110, 27923610, 33448602, 63776544, 27096701, 52096053, 84598526, 22014184,
     93764677, 54341107, 81506321, 44618161, 3292136, 50127480, 59213589, 99306250, 55717392, 15528733,
     23643479, 14596997, 99940390, 116470140, 54108717, 85282819, 113238837, 47123554, 66256868, 88161582,
     32366864, 123840435, 116434153, 97670702, 7802667, 2564429, 46801039, 7345331, 48704923, 97980148,
     14714904, 20316685, 85671122, 57088892, 40438007, 129814726, 126516857, 33767485, 122280362, 16151562,
     5495979, 102777387, 26287984, 106264491, 89491424, 29889194, 94755959, 31273790, 30858337, 88560214,
     45201296, 43594470, 132301802, 85273653, 125515770, 52597054, 48887600, 2543830, 94281700, 55951153,
     130256484, 104058469, 88082873, 46306507, 56278410, 115514220, 125429469, 101749133, 78162731, 48120325,
     90618738, 1557748, 121196819, 121232505, 7230827, 113667552, 14585699, 9410226, 8749206, 2600159,
     37210551, 104203209, 130386406, 75056799, 96155016, 87576251, 48746805, 53421885, 80660680, 18874342,
     59049153, 110792136, 65359478, 43521439, 46539000, 39393664, 124213767, 127837930, 100306669, 51844578,
     7839348, 31310282, 81791644, 72862203, 125723048, 49718679, 51720483, 24612575, 17217602, 26447838,
     6753654, 110335477, 72231450, 53794648, 49910774, 39406875, 73613552, 111377724, 91782875, 27067477,
     58365100, 2602273, 81539825, 125706994, 80045925, 117472118, 76627883, 23882270, 69366960, 46349264,
     28263984, 98933152, 36473739, 43542054, 90571308, 37865149, 125916236, 29157860, 14170430, 10371394,
     6988136, 57104682, 60542589, 51261066, 126333560, 113905526, 118168812, 85599925, 29710277, 53406903,
     82299230, 9763763, 9748181, 42754890, 108125007, 130227167, 9151936, 110868530, 126606779, 3678884,
     47730754, 24865644, 41589189, 72481240, 45961714, 123954573, 15392396, 17982752, 47985138, 62693027,
     28335564, 87394326, 4385765, 6379387, 62985040, 42086454, 111896902, 99044390, 101733608, 127204000,
     72882473, 13744797, 16349547, 356553, 61324367, 40944038, 34188643, 57542340, 61935570, 24748801,
     118150953, 124415215, 26182825, 48610024, 71559467, 99073582, 62909029, 72056174, 59249026, 54701002,
     9427652, 48021202, 122876726, 130199789, 119954352, 86394047, 29089880, 113581828, 116109250, 20398132,
     61083164, 68114974, 115237473, 32228312, 41455251, 48784889, 7572964, 116869201, 132537514, 74974494,
     48499857, 127383107, 5666677, 80000885, 29686708, 127182543, 44721652, 7210016, 111675567, 130778964,
     129764811, 29549944, 36856913, 18012502, 16387842, 10514767, 15757605, 28866627, 132371707, 93113389,
     63686357, 41368412, 17537946, 119848170, 41507848, 21370778, 68897434, 55705786, 84146213, 106309952,
     71627143, 73231923, 103878615, 32422733, 59971583, 14810567, 112809840, 113766903, 91915206, 4240584,
     81321116, 106734776, 13228602, 85471343, 42639861, 12750376, 37295891, 70294742, 117268610, 120749897,
     116972018, 90676140, 94224821, 30922715, 91387295, 66219900, 18356207, 37256412, 2206568, 76817826,
     10504799, 50297168, 59931641, 105648452, 38845739, 33254560, 133068284, 6831120, 12926082, 116954397,
     83555210, 34545360, 41438182, 57305543, 24541056, 101966854, 109090362, 112919375, 110247613, 66913808,
     64167552, 31696421, 64915432, 62976007, 15572458, 27911745, 80787264, 90734426, 100350373, 13181890,
     118991374, 87270325, 110154698, 47128772, 108211773, 120008789, 26049052, 17650034, 123684439, 49520064,
     11881628, 16076820, 31804039, 70581983, 73193036, 132422423, 95544142, 33062595, 85852842, 96755709,
     82545867, 86954912, 95880154, 126435185, 53957483, 28166386, 5809312, 77905826, 38192121, 78922146,
     77669299, 42121044, 96343552, 7852320, 54322882, 132247853, 73850690, 7140068, 114406051, 81889975,
     82699788, 114355193, 64255907, 124122234, 54256575, 37089408, 13878512, 51850021, 50079132, 44210280,
     130767201, 112376485, 68163643, 113145268, 62019553, 31656583, 88345848, 24286075, 30650609, 44863657,
     59589129, 14416628, 32806639, 115852902, 70634642, 3681814, 68181574, 101440731, 106919763, 126842563,
     101860794, 68612589, 48654923, 61846144, 132905175, 121219182, 75904230, 56834041, 52130252, 54453086,
     21724895, 8581444, 2140803, 8824741, 47590518, 38235670, 82272542, 84682679, 36308699, 15931217,
     17365044, 16384659, 63727542, 73887180, 17234384, 39089109, 29483490, 44875918, 66905187, 47899668,
     96950876, 29612897, 45550636, 120393848, 92294444, 18258237, 42771684, 62364753, 18630009, 88083035,
     106704704, 21813548, 86923723, 80820293, 88116264, 112138201, 99877565, 62144577, 68755008, 5456342,
     8895448, 90352675, 20111837, 2302199, 72639088, 32132433, 88202755, 122783087, 4889749, 80929961,
     98287451, 28215789, 122812511, 25895369, 80848633, 115154807, 118666354, 97390825, 65777580, 22989659,
     101049349, 113452492, 3459479, 87842923, 71633005, 114701853, 100358887, 53731091, 105976913, 16221543,
     123731206, 68577330, 54522493, 121689663, 6481705, 121820892, 99922876, 112708059, 132300023, 98565982,
     126443111, 98234095, 115979017, 80525409, 3083694, 62223112, 91593173, 115772205, 123766517, 50392769,
     40429753, 109565307, 82958687, 933872, 79596066, 28669663, 51345581, 74361537, 123399792, 117635084,
     12535918, 92973688, 23083117, 122988911, 100362607, 81729641, 102687476, 1284053, 64630788, 76505727,
     116691266, 98798057, 25966997, 66125107, 33383749, 103415159, 5380804, 26711114, 112344047, 27725921,
     40531270, 3251716, 81914869, 89527970, 64790273, 73146353, 72839242, 17139101, 36513473, 64023052,
     16313740, 55738390, 107692074, 104042927, 59672486, 123160958, 46599418, 47974474, 72604647, 103514270,
     6445076, 65225810, 100019373, 113730884, 45449124, 46685784, 43656831, 28560831, 35578615, 45075015,
     5846791, 118144456, 98016073, 133831422, 89546400, 49267219, 107882978, 21788145, 63409637, 95387256,
     115635895, 81581307, 54337707, 30022433, 71923803, 92684450, 109339113, 128298653, 40935396, 91689129,
     63127103, 37618935, 47509657, 48486534, 7442471, 119285024, 129637484, 72224951, 113601900, 128767168,
     104933617, 104773301, 1640901, 27680051, 121689609, 86653353, 17224644, 13367146, 121867981, 94983575,
     49697058, 102832134, 2238182, 42458673, 101723397, 113833340, 3324661, 95099986, 110590036, 120756190,
     17962664, 71347931, 111178417, 128752406, 6112419, 15224798, 16801776, 120853882, 92219160, 25492187,
     81794802, 45522043, 96930361, 2740945, 16867876, 7100129, 75643774, 57040041, 114230936, 129227187,
     108932171, 14022514, 114126338, 65317186, 93550189, 72434265, 109627367, 52428638, 68373991, 87136838,
     63611375, 73612973, 81153961, 87916882, 110003307, 105021106, 24969939, 99898587, 36781322, 15146156,
     111677515, 2045694, 31702409, 22255238, 16094287, 30170116, 107123696, 76798650, 131509195, 78831430,
     17274962, 47337434, 5428435, 77902269, 68307663, 76474323, 76854019, 18986760, 87445658, 9755775,
     82390870, 75674467, 65111944, 95825553, 13889040, 17702723, 48339560, 42115, 63612793, 33224136,
     132593080, 20603833, 66584065, 63096216, 86973261, 14611224, 88261340, 123837645, 83153617, 102194187,
     90158486, 101583172, 14784159, 12647326, 30066242, 25991226, 27102417, 48367754, 57636054, 87672369,
     40532787, 87109911, 119713950, 54321712, 12582340, 66306571, 7994781, 25598004, 99663151, 67666165,
     8430115, 44331740, 6684614, 1680412, 34935523, 66711283, 52504412, 12540602, 67168465, 107900040,
     79059549, 10282291, 100698912, 1613853, 124138049, 61160609, 34730669, 48458342, 60661035, 118205935,
     51598434, 42314257, 25010259, 84970650, 75095637, 3593634, 114134799, 39201428, 29718766, 76165594,
     21624874, 14891426, 11273638, 87619393, 53892516, 34458125, 134198386, 53131460, 85661892, 56438750,
     15598751, 25211029, 130095474, 125538175, 28785034, 102455975, 60148933, 80397920, 80034749, 114574852,
     130512580, 46667620, 117038533, 116610546, 46382298, 73664284, 128766441, 44175152, 79655996, 10568593,
     109901282, 40910339, 41553293, 21192146, 84563601, 62863280, 97286955, 63215245, 133366818, 99665020,
     113593545, 105471927, 80504613, 100356158, 10752483, 111150931, 96809297, 118004729, 16720733, 123524856,
     125213156, 130045437, 127832279, 71742901, 116250332, 16571609, 14109204, 116850108, 80771599, 29616745,
     85219408, 3777803, 104911746, 45854264, 115625302, 14786829, 17170811, 109345576, 26592849, 62646717,
     580264, 37498610, 132012310, 83430848, 64906776, 97752989, 80026057, 122618182, 116674784, 38250282,
     25272055, 74592511, 43859086, 117415143, 87410981, 32549511, 45965072, 55791260, 99560812, 58542511,
     54454580, 116008994, 78211075, 118766885, 73712599, 27910518, 50883866, 17112798, 130678492, 67497203,
     110573408, 65928669, 37968255, 5649812, 74208210, 55490757, 81147845, 106408227, 31183221, 24711841,
     21470610, 77812180, 56484949, 111956583, 78959539, 113637499, 112215564, 108060928, 73796273, 53474186,
     66854836, 47524341, 62010885, 49013451, 5262838, 28561563, 42051116, 78363441, 103329578, 42665531,
     86343463, 113760057, 11258491, 68906418, 119181890, 68689068, 117870583, 14772975, 114341394, 118741361,
     101378308, 7332006, 44075484, 109276819, 35318036, 64209542, 50061065, 119752890, 56008338, 127808494,
     7137842, 82626084, 26141375, 92664866, 92244359, 2749078, 113543676, 103778188, 9093334, 98637519,
     23384196, 10138564, 32483773, 28499653, 110935421, 33595427, 63762461, 56585079, 39331691, 127901375,
     82252086, 128108822, 98141271, 58946626, 77321867, 28636654, 79604602, 14533083, 107085877, 5111980,
     73878160, 83252287, 85781435, 39905117, 57063762, 78058594, 116414308, 116155915, 124955334, 76759997,
     75341637, 10503034, 82348376, 91067138, 118526456, 49862107, 15605294, 99025630, 46685708, 92020813,
     45138470, 99553375, 78839870, 41308189, 104351227, 40732961, 79155717, 55137160, 75489914, 25352062,
     104406677, 62644819, 48210825, 8953090, 89661624, 96110129, 103105909, 105089964, 62770749, 15625960,
     101471009, 38890137, 2294035, 55064570, 82745066, 25227692, 97601639, 84319966, 93329825, 45372561,
     14289697, 108580683, 69546311, 110959934, 85278038, 80187308, 95446636, 36475860, 127428787, 50009449,
     15078169, 64266894, 28867018, 368556, 89476603, 39507151, 5643226, 89378601, 59078165, 27730431,
     6701380, 108706613, 84893799, 63472525, 84770617, 55654340, 14339646, 88716491, 19518229, 101310165,
     45635804, 27335266, 41575337, 120285621, 65767492, 106193466, 78924358, 119952339, 43982523, 49354138,
     2830009, 75129338, 8133089, 132238115, 114803147, 82346425, 25546319, 117339527, 126467915, 118091477,
     57171734, 54981854, 22824455, 88651104, 76523770, 131184410, 10262123, 108024063, 32977324, 132236871,
     79244006, 54225066, 49327791, 104201397, 11024955, 95113047, 87610103, 27825261, 33787902, 130834633,
     129069252, 52355776, 25868511, 24308371, 22502750, 43920528, 38142214, 30165826, 108162937, 26319748,
     117634244, 90960246, 108400825, 96188431, 30198493, 98268655, 53589505, 26897179, 72419736, 16495996,
     70741819, 58370565, 125270024, 71592550, 104122433, 130186164, 67733794, 122604160, 19108215, 129859394,
     133769603, 107253107, 133122444, 66793918, 110228195, 129130853, 100897222, 81978245, 100515032, 56250931,
     126059829, 16194852, 100808296, 31562638, 78005462, 113955903, 72909156, 83795670, 81979794, 37586193,
     7083661, 51186184, 82818894, 122895792, 13253141, 113555184, 116662172, 12855781, 14405228, 12858218,
     37509402, 114223541, 100181205, 804917, 20818023, 80155076, 25684203, 60067133, 65861484, 115116269,
     125934186, 48569408, 131025011, 8908702, 11492855, 16945182, 2279566, 31822446, 23162865, 68699574,
     106811578, 61286853, 87059640, 25353432, 112416618, 90868733, 68128269, 117866586, 57382765, 13316325,
     111489093, 4568368, 49735382, 18025666, 110261251, 95495489, 77700909, 45098477, 14171853, 15600715,
     3741856, 7243983, 64921976, 64833213, 44876877, 36299892, 132043719, 106745251, 6574089, 80568615,
     64464623, 61678341, 100276031, 24062443, 42276285, 206100, 91260788, 40474431, 51643112, 97780574,
     29604975, 101271197, 10007357, 109248964, 78912103, 47915102, 90125850, 126703749, 74604587, 70497503,
     45205266, 38238553, 13483939, 5049241, 23681791, 5211578, 116602014, 123344041, 51052200, 12266036,
     81283615, 8235237, 22843484, 113540773, 32456768, 117129586, 9000407, 28285649, 132832801, 43806696,
     35486298, 43642709, 57804627, 41150218, 21510563, 44519766, 58955321, 62008341, 130541701, 72348251,
     51223268, 37115780, 595559, 94847968, 54965266, 90012218, 81752951, 39118532, 45752678, 84707340,
     5191244, 105979824, 91202267, 17716854, 58439320, 25783229, 120523764, 132083588, 130539627, 75855663,
     81955791, 23499457, 102320032, 24261343, 99365551, 13114000, 10176155, 106764389, 80586078, 90565974,
     103351375, 94393038, 105283377, 38651148, 78599958, 102466678, 99907017, 44551238, 107896709, 67870472,
     110610927, 21410922, 30807811, 129425408, 132188937, 37405099, 118295539, 102099451, 12569819, 50640532,
     40141471, 50667247, 11745155, 63551610, 70580745, 71829339, 19526092, 19381099, 59024847, 93771032,
     47540527, 61651947, 78078001, 61098134, 42171801, 2004123, 14918478, 84877455, 187412, 29467649,
     121037175, 86490539, 51346546, 109766191, 86119621, 62037785, 9697161, 115986605, 9392248, 39944836,
     71792159, 133608932, 85579750, 76066208, 124491674, 70005542, 35562881, 51157460, 117712962, 21676082,
     130523016, 58633906, 50319192, 125633985, 76880923, 133961214, 11842416, 47489394, 89848982, 34714813,
     106839518, 25402508, 111527415, 24476251, 81535639, 72257088, 44449136, 103757425, 18837253, 43264551,
     57231980, 108355868, 83876305, 93076629, 5174519, 48163716, 43806188, 43547682, 115184662, 84362825,
     80793831, 25656492, 123225832, 113074456, 15496576, 112455807, 68237516, 130471025, 32428492, 67579151,
     85721757, 72112504, 129957769, 83585021, 85302091, 119434719, 128528405, 120069503, 102311995, 98766000,
     27858015, 83865921, 111546000, 68506651, 90407399, 117156675, 89423616, 10660843, 122709470, 105408666,
     17472311, 76220934, 103014865, 63996941, 114744698, 125842419, 514577, 53257576, 78006943, 11201297,
     68172256, 128811721, 59650366, 15584936, 43590944, 76562679, 12616225, 75301217, 70895159, 43634447,
     115576817, 56753885, 105304203, 60363140, 2305322, 32158855, 77959311, 18547265, 46974855, 70373757,
     119796601, 32121354, 108845211, 127625876, 52020480, 115567086, 35628421, 12257060, 3910777, 17363956,
     57629689, 127014469, 22612782, 63105915, 103805636, 70973690, 68539289, 1643705, 67926446, 71935752,
     12153790, 27312808, 17348839, 86924891, 25576934, 82457461, 21800269, 40544116, 15659122, 129106431,
     43972706, 27418950, 72982663, 88657021, 68650075, 50807044, 55935852, 43628460, 67850498, 52658993,
     7565164, 89698394, 54847332, 97948488, 88514376, 67332565, 2896396, 41095332, 89248001, 117367653,
     122942549, 72911173, 130859391, 113503109, 129940552, 130112520, 42521626, 38836094, 41111560, 63816613,
     11015957, 101340070, 8242291, 74939139, 89263934, 71451506, 64746972, 23262613, 5674034, 73097765,
     97527543, 110432798, 113275172, 11419791, 85252345, 33116871, 53752884, 125449980, 45083021, 109288174,
     6289325, 5194515, 34243117, 98912585, 132594443, 5957685, 114115643, 47424860, 22566478, 92986728,
     115250597, 93864692, 2950173, 118201819, 24853104, 90857291, 50058117, 45432546, 23804187, 16815163,
     109378757, 110748664, 105714070, 125338643, 103792399, 111958545, 81919025, 49069682, 86115061, 51457812,
     123961580, 47764851, 108141830, 48847099, 89891056, 72736869, 134150904, 59438866, 954516, 5640723,
     58162259, 128495770, 69129160, 68771044, 100633438, 86287500, 18045999, 69123306, 60938948, 117835478,
     71763494, 33166931, 83323222, 6041069, 105386468, 40534653, 62899136, 115360165, 129082217, 2889866,
     24566024, 50797091, 115607841, 26935325, 77949343, 129792078, 103910947, 94078820, 121616914, 55595217,
     112379760, 111280786, 116314944, 40265995, 55662167, 38713985, 26743095, 53402951, 57951697, 132072445,
     65360245, 97010084, 72629817, 68408641, 92318027, 88134315, 125907918, 15535851, 6016146, 95903257,
     18002699, 61963472, 32519045, 2407138, 49453759, 102126081, 47284596, 51988736, 2151473, 124246489,
     25153835, 82002255, 27933823, 116370477, 73687962, 17055607, 40291391, 65638421, 113319867, 72719122,
     1044278, 62368174, 94800787, 98898497, 48634212, 73564333, 106645034, 35461249, 30202430, 56084086,
     124797755, 1531269, 26656247, 35873997, 20429446, 18686098, 120401128, 133995807, 91510321, 123663459,
     103208085, 19984232, 59252361, 131239978, 123289482, 69767704, 121511394, 35526667, 110121859, 93936720,
     107904310, 118278415, 125120645, 44216756, 20521110, 113613429, 111406061, 108607450, 20978248, 67383428,
     88893689, 46485289, 36385179, 76786022, 52823772, 82697438, 36429551, 132286921, 16598042, 4015961,
     70849069, 61221353, 117332392, 85419630, 47801380, 40777665, 24336191, 130236955, 108359620, 14323428,
     34947770, 125280376, 13807594, 16542770, 6612899, 11604146, 93894622, 56114446, 128845932, 34444035,
     92421465, 61515528, 77143942, 74033605, 95057927, 68430631, 100960109, 134127663, 133066764, 68589246,
     85333411, 23674563, 20413989, 94565773, 134200831, 80875172, 92078225, 29059239, 53292230, 23215308,
     120454835, 113350278, 119866880, 100937645, 52744140, 26447854, 56187789, 26614333, 20958652, 112286535,
     127369647, 51770899, 94560336, 36439599, 87994428, 117578865, 29145128, 75483457, 100092908, 41725989,
     127045268, 45449077, 116246187, 104455264, 61730912, 55797118, 11575097, 123885056, 86626126, 32668011,
     7009611, 4405685, 57584192, 76039124, 55996230, 113697616, 125256439, 93945107, 100268514, 112700094,
     16485913, 14523296, 73051711, 19939675, 87128769, 50046859, 32974937, 35371647, 78250750, 96982859,
     6821991, 106985319, 98362668, 76120046, 79315304, 4142950, 123254710, 31569331, 122019570, 107736572,
     40041747, 39695544, 7322756, 35495680, 88620169, 68541963, 91553890, 52952535, 99362871, 113496860,
     42649774, 64038492, 54669882, 78202240, 108249451, 112129613, 80730647, 89584258, 37110789, 124910544,
     15404065, 119745574, 95542911, 43677393, 39991091, 64040355, 125361193, 117832953, 112674908, 46003100,
     59433906, 94151626, 28766561, 10808412, 3285874, 19878511, 72155477, 1133167, 96506394, 111858713,
     12162546, 53757305, 57070431, 7075762, 50118395, 61537993, 63484511, 59088178, 79716273, 106653960,
     60807830, 74112689, 93258416, 19129065, 30331740, 92227891, 98591742, 93084288, 64646980, 46395993,
     78704607, 95758226, 82896589, 112781825, 121053514, 101462367, 130766410, 58587180, 1886728, 51864240,
     95220206, 129549750, 71601062, 68461810, 85876588, 62674600, 31577398, 8831492, 59217816, 105576531,
     55970708, 71236975, 54884303, 131965339, 122885669, 63498206, 40579517, 4530477, 60149933, 18130505,
     6069549, 99034815, 44514227, 114480441, 33490184, 8585423, 52498611, 50989036, 21247340, 125200062,
     39234271, 83473398, 45461407, 50400948, 62129927, 112912863, 62824535, 19543618, 85678292, 121010581,
     86102590, 4742534, 63595641, 78421291, 56572295, 73520206, 69171960, 102720392, 87597297, 7208925,
     47829125, 124222607, 132369840, 90537249, 108374986, 5074983, 113383017, 9075659, 19186876, 87136609,
     29437344, 53308707, 83008815, 55137175, 116571270, 77530796, 60447133, 31361590, 109146873, 22588024,
     80722347, 121871717, 517044, 13572014, 130595449, 1017145, 122400622, 14329909, 50884950, 60627803,
     109096676, 102889789, 27418656, 10180803, 86543663, 101285966, 85989179, 23183638, 52451735, 53931724,
     114392770, 26070102, 17110925, 20297674, 24095390, 125444597, 76414440, 7716115, 97541896, 34304470,
     3068779, 19073131, 90869162, 84582862, 29947131, 65267093, 70134626, 39995732, 67250282, 35477805,
     98561950, 57744578, 54220411, 130356789, 104534170, 68697931, 41141955, 65831727, 127331681, 133201347,
     47490742, 101035271, 22314467, 41345748, 43232676, 86683647, 126285951, 39872092, 92945035, 95788720,
     43496656, 14177985, 14383755, 99438133, 92468965, 76005298, 96370809, 93921593, 18316059, 80521918,
     49053557, 26705129, 109389013, 34080115, 82656354, 59964865, 129325228, 27616736, 81990684, 127617234,
     23136476, 26839728, 68806977, 20342570, 96497467, 29578850, 134102308, 114801551, 41700121, 51491769,
     19602471, 6589269, 111869059, 92622269, 95632425, 84006961, 17409739, 56469374, 63806297, 116197314,
     128134014, 43261634, 59517933, 42932695, 72634455, 33169316, 12933692, 116857273, 131935009, 83077061,
     49927116, 76228140, 72967533, 121119201, 40316599, 36627230, 126491715, 5884003, 55970837, 72821687,
     87277352, 13643577, 108668389, 51182167, 109256026, 121671706, 67498811, 124732994, 112231059, 41567696,
     94301564, 117675604, 46247075, 72784240, 65920448, 73915583, 74387230, 47968892, 75350284, 45528195,
     90506015, 49969157, 55775714, 41939503, 111133936, 2319134, 116558308, 94827733, 22797708, 58651693,
     102372738, 57314956, 22279805, 39375637, 49011447, 88634827, 101853790, 82371958, 3972879, 43359986,
     130827441, 22241223, 29167653, 112185985, 114605054, 7912659, 76594759, 127893897, 71977279, 5441319,
     125315279, 43146517, 46739037, 83182514, 128422854, 63006744, 99398786, 88943712, 66308118, 87246438,
     63812311, 45110133, 108532425, 12402764, 6888884, 88141905, 30677736, 97568592, 47267452, 48651874,
     94127117, 58924612, 124327374, 82350604, 89957040, 112225786, 20503496, 46820599, 115165685, 96036245,
     131455498, 128929401, 106443631, 8621354, 39933193, 110031114, 105324368, 113736603, 16309085, 74968010,
     77618684, 100540243, 95862446, 77696508, 72249827, 84912762, 43585149, 45902735, 74934221, 27853511,
     82520136, 5939131, 60248011, 44222880, 38763988, 96161548, 25716344, 55762329, 128198795, 3285849,
     125937957, 20401478, 17645778, 15813923, 24794780, 96787008, 73990248, 104624084, 110206803, 98274145,
     78642437, 45029290, 132545006, 44470592, 45644999, 125798208, 54540155, 11974297, 22881083, 68856330,
     103845257, 3514458, 31445270, 79406067, 32310999, 82871567, 123424224, 88915148, 22620623, 35321913,
     44712918, 94002244, 115471326, 121045479, 34535253, 132838161, 29513989, 50856529, 119256658, 72207223,
     121636140, 83656507, 47530783, 116532636, 91487610, 29431177, 82704511, 47786126, 103629588, 16689278,
     88727259, 11961221, 18391795, 77501397, 92607096, 34349742, 21385981, 70009255, 110902340, 83449530,
     10467918, 30453845, 25337531, 44246866, 67386569, 87869860, 110315746, 40706932, 47605950, 890037,
     52295548, 110589008, 20412355, 39240880, 92855560, 61311069, 41086016, 84748466, 42315848, 22195210,
     2606752, 2186881, 33715878, 116971044, 21852625, 9715381, 15072759, 97144404, 28492738, 74773082,
     112349247, 90325953, 68091256, 31659585, 123156129, 17714351, 74721163, 112053564, 65992229, 53195711,
     76311500, 120013506, 93797202, 35710035, 28761100, 25332459, 34705993, 17936950, 85850207, 77383042,
     88078945, 28203055, 67780520, 107572364, 58306797, 121174637, 112393934, 120252303, 18960835, 36291840,
     14634489, 22873147, 88945871, 61623515, 105637403, 125282737, 44310414, 17172572, 129062781, 106447095,
     39600028, 114972024, 34034462, 126526837, 87563114, 24491084, 76181122, 54490691, 3922939, 91556519,
     11104060, 96027449, 14971815, 78299275, 46911310, 76211474, 3370967, 81199359, 100970477, 17079964,
     86079409, 131688035, 75552798, 92159068, 35466949, 113913073, 20934223, 82960031, 125548356, 14111906,
     61003607, 72693532, 39732127, 54379517, 61443742, 26316064, 72959425, 82563454, 119914137, 25223163,
     70708808, 4292372, 35719564, 55465944, 10743406, 16693293, 116261182, 62491582, 108711902, 71305789,
     94380487, 6242848, 29003472, 113727069, 118990145, 24992687, 66003856, 80501599, 94050568, 7743310,
     4416134, 88102615, 68680213, 56178666, 105544006, 54560696, 108376062, 67452218, 106922570, 61273043,
     57963227, 38789947, 33438145, 93893290, 115836668, 69172862, 121831547, 77798797, 124708813, 27597409,
     70468829, 45593715, 122533951, 50171484, 1697772, 68555737, 120135216, 73636579, 25483583, 6797151,
     26373896, 116487127, 57523198, 22561964, 87476634, 123821585, 35478309, 70358990, 26383347, 6485278,
     112796619, 108682, 77014647, 116180506, 58940442, 30909048, 103199839, 88244986, 87731389, 53347810,
     122792101, 130192349, 52916549, 19906330, 20367814, 120386796, 9335017, 133751506, 88983764, 16552800,
     43162878, 17186364, 6378810, 100120644, 71310326, 36707510, 81062147, 119771035, 122685011, 798644,
     39070256, 116747845, 46811015, 60604048, 122903071, 30823484, 90702787, 69383497, 19914038, 7851781,
     50111902, 97063962, 24529540, 91348471, 95345282, 108538952, 90661569, 76796222, 63212606, 68295822,
     5965396, 133861887, 68292080, 14283574, 33291246, 85493543, 68917712, 12660448, 29898853, 88589861,
     9823884, 90187431, 119158194, 20650222, 83566465, 104216161, 110309960, 75468974, 84232803, 132416847,
     4580535, 111234410, 132775557, 41389749, 33110576, 95854341, 3998671, 45849588, 39559051, 22532146,
     11584425, 75714293, 53830345, 92980635, 92600664, 121235670, 68240726, 112492053, 64588033, 124936921,
     132074961, 100437574, 63470310, 3481247, 127796210, 129307274, 92485922, 41963804, 55649972, 82520578,
     114861339, 18540031, 28154348, 99755633, 26989612, 74309250, 121623004, 113363210, 48150255, 14555238,
     61923138, 40475659, 89003100, 107466058, 123987192, 43552942, 74319291, 36757307, 128704663, 62457509,
     94571851, 87948826, 84631003, 14545049, 83159914, 73547920, 33988734, 68511349, 117797235, 96255494,
     30198598, 115671414, 122737637, 37207870, 97851701, 1509975, 46682828, 33080292, 20396341, 89013712,
     105806585, 97948828, 90584230, 121341644, 113029572, 58869028, 24626206, 126659709, 22591479, 75762107,
     25398623, 64078336, 68410811, 105928658, 101512154, 2688759, 49460033, 109067428, 14148027, 37172720,
     65019558, 48855976, 59403671, 105252224, 110143838, 35215560, 132972906, 27264908, 69298327, 30057092,
     37068233, 101613709, 26331138, 35272969, 939887, 50562188, 3323669, 26662812, 23873038, 69446373,
     32787610, 54164229, 53678806, 22909579, 111195536, 126459618, 116938180, 38209283, 114004582, 87343058,
     86111741, 41554932, 131873207, 99631403, 127403942, 96439106, 36839664, 43344527, 51387412, 87926789,
     131638526, 124569767, 132886394, 46083132, 46512309, 40176785, 33679430, 11490296, 107587246, 127189484,
     9750952, 103163521, 130969722, 110134675, 27878776, 94545519, 105657745, 34762850, 82079040, 7699419,
     62656983, 125374777, 116753118, 56293668, 32889764, 92568428, 95176770, 42342466, 31148511, 126875702,
     103152239, 42406738, 83393727, 72282254, 89245720, 92188826, 106690341, 62321650, 61954743, 92213949,
     88084749, 86100829, 109637951, 42841133, 121994782, 74380019, 84094694, 39186348, 7654247, 26693226,
     63457140, 122132062, 120291466, 43215722, 93638160, 29553197, 22297256, 49931515, 102839210, 70346897,
     100263569, 50146185, 15596452, 60598557, 19188443, 68564177, 76229934, 47217810, 30267390, 99955552,
     2464172, 30869747, 114195165, 92005717, 124019168, 109814942, 129063223, 10025691, 33210233, 51547050,
     129013790, 118987665, 9907519, 97691962, 102608147, 84816293, 46938767, 31264131, 68346384, 115740244,
     131445203, 76586178, 97982772, 59090658, 47459434, 33063453, 99668406, 91379247, 54533357, 9979575,
     71617776, 129366862, 7680066, 54043657, 132534940, 96974679, 6692904, 29710769, 636880, 98858321,
     33120977, 57686816, 93715752, 80001473, 99862857, 61427427, 15254066, 52368293, 39835526, 33931856,
     68657469, 112835483, 124246997, 129015053, 29542499, 17132034, 21274358, 41845501, 44722229, 24174496,
     22986211, 122889544, 127077282, 53859218, 123694843, 15760095, 3744850, 92552244, 89509138, 15201444,
     47864376, 112985598, 15615872, 40059556, 112520380, 121941827, 38363310, 103383544, 1560596, 54062323,
     33252452, 101279667, 108451220, 133371960, 22200666, 70775739, 133650345, 42834977, 77306350, 67447281,
     110012376, 115549267, 108295676, 103124460, 101993592, 7032052, 91361144, 50958628, 19752636, 107094859,
     116920203, 128111228, 10895304, 28922731, 48095547, 74466864, 125962644, 84470797, 102643085, 21528550,
     35822838, 100972700, 130294840, 104273513, 88684744, 23204421, 9753306, 88049360, 73745842, 21211912,
     43585663, 11303526, 121622509, 122295269, 11545219, 123445185, 70911925, 17527139, 29782827, 94369822,
     85011332, 49739458, 20383938, 86107118, 23618249, 47231782, 110539000, 28805584, 76778948, 82875839,
     58908750, 23412443, 6670751, 122821602, 9178706, 86783463, 81319085, 54117003, 39940367, 69803729,
     115897804, 7639249, 31798735, 21031996, 119143263, 64742161, 125078308, 60643586, 2850127, 54893221,
     63147466, 73407614, 60073811, 68368568, 86635025, 90026642, 127927667, 93159645, 4677935, 109134339,
     117974089, 36860339, 58180510, 87904449, 49636621, 95267722, 92452063, 75520976, 42521749, 132237545,
     14021563, 9190629, 4206197, 14485102, 6432899, 40221873, 132092279, 42336513, 21603350, 39763603>>)
  @@ (7 :> <<  \* random.seed(7)
     43464097, 127220335, 20246633, 52992312, 87366946, 6480894, 9722233, 110229569, 71924865, 12633920,
     49081935, 78220482, 7784483, 122098412, 68106871, 28816302, 5032582, 11535642, 58202938, 56126116,
     9375836, 32301241, 12175294, 73960310, 56978001, 7933677, 110978213, 75893910, 16616417, 127164546,
     29962626, 84641177, 84212661, 78248519, 127199341, 8302983, 77457446, 78590039, 53241552, 6655764,
     131030742, 29673100, 6252221, 74714297, 115221686, 17874421, 38870700, 56255890, 19361589, 72569631,
     15809806, 76626738, 41403729, 75196458, 109538625, 91536852, 24256684, 13831903, 78061052, 76665755,
     85753514, 25215622, 49982352, 13076910, 73517017, 95577889, 8427393, 75748230, 7999533, 83082061,
     27643310, 66627625, 91321738, 71366283, 57390467, 104317880, 42164119, 62492024, 78592782, 123942204,
     60825377, 48530762, 40234045, 33343251, 106619809, 24127884, 93817444, 104666961, 32762079, 10986393,
     77097845, 40298754, 70490681, 66453392, 117458966, 46100526, 97904489, 60241505, 38646352, 81733095,
     131556841, 9824854, 15846520, 68710461, 56119495, 22140838, 101621735, 45909953, 20399018, 125261407,
     65627516, 56599395, 5262308, 129120015, 89686414, 10418044, 102618964, 74903659, 76910239, 105910426,
     117504642, 109837526, 42110478, 45650450, 93320964, 47000147, 79774974, 66662562, 77832216, 106957030,
     61230843, 9229206, 112738567, 12562241, 126792950, 36230636, 63632401, 93555402, 89141000, 8724149,
     8142912, 98134544, 94152665, 41554798, 86856164, 77570629, 133291080, 91434105, 110316877, 59812891,
     38197765, 96184154, 51780050, 119056532, 89745048, 46574257, 3028344, 126251713, 61967692, 47709585,
     22555071, 81996233, 15716331, 66262352, 7912728, 29287351, 103110486, 38578460, 17359750, 99101455,
     33234300, 53404922, 52472380, 123052990, 116960277, 66640001, 10815439, 22329304, 60288912, 53907779,
     73744576, 37290936, 118565770, 18377915, 109961878, 57783637, 115962032, 73849218, 37369042, 94810961,
     55740154, 132401370, 48153450, 91633537, 118674352, 51061966, 128544506, 30970943, 20256261, 11138017,
     23651543, 20306925, 31132723, 88384612, 31317839, 1619076, 65090595, 111547489, 79070818, 24473646,
     35265254, 37840101, 549434, 19552354, 56230047, 71751584, 49560375, 81847639, 76013032, 42763335,
     127922638, 16843185, 92676489, 115320133, 69188088, 127536899, 82891895, 87908110, 90758038, 99292228,
     7246803, 61289682, 120733276, 116900889, 104685732, 127760005, 117375172, 91345243, 107088717, 75064182,
     52664205, 53428001, 53550032, 52897893, 13896513, 64628898, 85132904, 53746500, 8354761, 25583179,
     9039243, 132159848, 28019720, 59139937, 21783965, 14754327, 45641228, 80628248, 7056578, 13741157,
     31310, 76072408, 20302435, 72023741, 13618316, 127365746, 48802897, 82374421, 3422671, 9437596,
     117350905, 27910936, 82418944, 50496650, 19938108, 85149012, 33857462, 128240747, 46625835, 80836544,
     48877189, 63639532, 16487605, 15482486, 113942385, 65507385, 133291990, 131241181, 62544046, 64477539,
     64939188, 41856109, 11527244, 19343122, 13715389, 100619530, 45987803, 99368259, 35535068, 64239549,
     111247085, 92886287, 21667923, 69301246, 3099855, 27543491, 127639122, 127778088, 70901507, 48553593,
     19676659, 92619303, 72903368, 122694570, 3629581, 101756225, 70881649, 40008920, 131332213, 86290869,
     115873524, 12215229, 93441950, 113474055, 35046288, 69578048, 49217612, 121904398, 22420002, 47740731,
     103607752, 29902737, 71483341, 72687908, 104562977, 67470852, 44246886, 85421789, 29936146, 82306098,
     108919195, 105817157, 132194536, 101780312, 114437900, 26192056, 108190036, 32130069, 109834788, 53778945,
     99304075, 107820599, 30432459, 26832537, 69476293, 66140059, 47722796, 98113695, 3889649, 132822345,
     3749650, 106047324, 37502921, 63382988, 34785794, 25990584, 92948721, 81220385, 128381280, 46208603,
     60025882, 108523856, 125764856, 97056591, 132612223, 46911734, 128178014, 130797186, 48940600, 10809644,
     29589952, 13711300, 30446731, 63093067, 26401454, 45330357, 27430528, 64780629, 83760773, 132237881,
     120837339, 81907998, 112801347, 256129, 64353833, 122030650, 87641229, 46171824, 107326366, 86319863,
     11378775, 112024666, 88662305, 16093192, 122108220, 52148384, 104998915, 95494971, 100682148, 26752197,
     64160468, 119321037, 23960779, 58240437, 105915964, 85341298, 44629703, 11643368, 107484719, 126992162,
     130413633, 96881675, 53128543, 62164355, 53873226, 99771111, 127076943, 11397668, 97280830, 21321298,
     22817504, 133293284, 17050801, 3697544, 20287103, 79297484, 121447192, 62458740, 108246863, 88027796,
     19619183, 82083983, 110932358, 79976351, 131574436, 63667109, 88217056, 125824759, 47030900, 20926211,
     73639904, 73589642, 17580355, 2871813, 1911654, 107287881, 130310673, 97491738, 87197858, 13793831,
     70676511, 100595680, 125309000, 18689916, 58224916, 132412421, 117003355, 26146343, 110884680, 117293792,
     28325623, 3757254, 33800696, 28558820, 39321318, 67264814, 32284650, 102499365, 78710264, 43753544,
     34811353, 73061791, 56238912, 111963757, 17592411, 8174466, 122140421, 99310656, 47484087, 120487791,
     61493326, 88915866, 78295746, 109393760, 121372658, 69358465, 56455770, 111016808, 123174438, 117865818,
     67330181, 17550747, 71380338, 20379134, 70263864, 68524460, 2510524, 117145984, 59072565, 104220892,
     24576324, 81678821, 527808, 104158186, 107262842, 20106149, 23131984, 18999723, 63551145, 83094361,
     97333793, 16151306, 74688894, 8288654, 43752583, 91580965, 69571586, 71232885, 74550146, 64758310,
     105263269, 104218737, 14241764, 118544830, 75201674, 7626596, 33352343, 25676674, 37167180, 5663839,
     103651130, 13119148, 68144218, 60690025, 75394042, 3740078, 102004552, 119992269, 122472071, 8505221,
     59491792, 43703122, 82212100, 130642201, 67854192, 81354422, 68741149, 26763445, 92976781, 37203213,
     60712824, 68203564, 71576359, 108362312, 64160948, 68149300, 126366142, 33239798, 93847435, 70224010,
     117646600, 117571594, 126457337, 124528456, 34841887, 123854000, 75096671, 119823539, 126603158, 27190971,
     112742862, 60066221, 18405872, 55920079, 16323822, 52662255, 59340085, 42410090, 9736972, 90080959,
     32297987, 57490644, 9814103, 28546741, 89855030, 40638453, 105218111, 16421523, 120396849, 104278127,
     20729474, 126098180, 96115983, 86363470, 88618129, 49148289, 19190316, 33971558, 118491817, 18422000,
     129861662, 62778440, 29472579, 100217973, 127842940, 12633303, 53453132, 118773680, 65399034, 21849997,
     132858297, 89635023, 111728832, 30026139, 21671607, 94801142, 57917877, 133422167, 69203339, 54198427,
     45515398, 56542771, 26272404, 47864027, 42751778, 12374072, 96925444, 49117315, 2614954, 45362865,
     74363365, 61561748, 59117285, 94375380, 2426922, 51585853, 44492893, 69448796, 83742074, 39655179,
     68754679, 128952999, 8628964, 15146464, 132215634, 123285445, 105812298, 30675978, 130418823, 117627376,
     14063279, 11282512, 35643433, 36496546, 5313436, 121587663, 104555265, 24367415, 36298660, 101438611,
     17388652, 110028642, 56673996, 114029747, 122327891, 90727645, 109921497, 126970180, 34709914, 54485395,
     20047826, 72021083, 123369111, 69092953, 76583954, 66385704, 94008438, 43895707, 12007414, 37455108,
     7721077, 107318824, 92369388, 24608019, 57085086, 120163147, 9719255, 36094290, 125943166, 2259115,
     85153029, 11887116, 107592768, 34970682, 11239731, 81628191, 114921062, 29851095, 8941925, 35494011,
     115799696, 16331285, 60904451, 1549722, 45520180, 133453477, 74231009, 56070842, 124375445, 122866492,
     35951526, 83443625, 17344259, 5798969, 70721337, 95232406, 32002360, 125913129, 14690326, 130085542,
     21669330, 35150991, 6761851, 24313000, 27080875, 125124059, 41874911, 84378806, 40937131, 71281134,
     101938130, 27631611, 38917884, 59819079, 67120755, 90215412, 23877318, 36308897, 46573688, 107867962,
     2437810, 133479394, 33614663, 4959258, 2059721, 2474155, 98392383, 67867728, 73960561, 131271867,
     25428420, 69019441, 63721294, 32974546, 125445638, 60002780, 14264840, 88358257, 109913600, 87255749,
     58005893, 88115205, 66437986, 73270296, 112019985, 119282780, 52759119, 130233125, 68006237, 41309941,
     92307133, 28881120, 131860937, 30811860, 45997036, 26658926, 111707608, 118370389, 94855077, 97823808,
     85359381, 18752741, 54317606, 132800129, 46647663, 131785962, 7299905, 112338673, 17423955, 1913291,
     9492255, 83946251, 99440464, 118092041, 34305229, 57813039, 21910577, 7435808, 11339367, 89285347,
     112913211, 51121087, 116841608, 67906507, 89998797, 130316016, 37840444, 80366678, 32509269, 92970676,
     39333645, 6071673, 61666730, 24877528, 21143713, 36109495, 59837566, 486232, 35331886, 48874224,
     129088803, 44147722, 130543248, 132192557, 73426945, 43423984, 32809053, 4623360, 129609599, 118432189,
     41546818, 29241460, 47859883, 24556192, 143467, 45007604, 51221056, 11259600, 63705589, 37437199,
     67479842, 88049228, 26975086, 33310074, 67744470, 104184911, 664449, 12193908, 35456120, 109661827,
     12046497, 19309252, 53621481, 78759061, 5592444, 52878918, 3019113, 40217813, 40835013, 84512860,
     31247171, 11339077, 78595657, 128531886, 71026618, 114520940, 100735858, 20837589, 88254017, 119829744,
     96099012, 105232215, 117989555, 80068835, 52280015, 102584132, 43773065, 96727665, 132168100, 66329160,
     20060604, 38141534, 97194542, 83041470, 86331453, 19428313, 5877134, 110710450, 112110664, 95967151,
     119714476, 68851172, 84199092, 57612248, 98495964, 94093779, 109014177, 67852569, 18697550, 122123053,
     70297512, 101048119, 67695536, 76300026, 112063426, 109106314, 108002000, 2158188, 110918754, 92136677,
     78391409, 107101342, 119833578, 95453788, 91656664, 128322577, 93056658, 86287208, 30862121, 11420815,
     4182295, 5618636, 17863466, 85512782, 48413337, 128784067, 14081650, 50548847, 112182022, 60584027,
     74964258, 6815618, 84257475, 2528752, 84050692, 71329184, 91357199, 32824244, 65671971, 35405683,
     444841, 61330592, 107065153, 9410210, 100430477, 125158655, 67507631, 120508404, 71833303, 12340236,
     88489679, 70597203, 8865128, 100089905, 98890055, 63600201, 33848842, 108611506, 9992509, 113566133,
     35642621, 31512392, 97889691, 101527846, 27543830, 30968878, 99298112, 87232433, 130960947, 61785797,
     66296682, 113485283, 51346398, 10299851, 64291655, 122200766, 91764199, 38563325, 102940985, 6274341,
     82808850, 84932017, 86270186, 26614050, 10398091, 80491079, 19787058, 44529810, 34083287, 87447461,
     99752931, 92997695, 40858176, 83369442, 76203685, 17910149, 1673589, 64749410, 8141783, 65202710,
     36074069, 130527949, 90194525, 13357223, 92903521, 29218321, 90691946, 65714920, 39038095, 95143044,
     69328247, 38325005, 62365992, 62531718, 62590981, 102967782, 15905184, 133318523, 119945407, 73695801,
     26742886, 41832264, 131281814, 11523163, 125661930, 63477626, 2349408, 38867961, 61602021, 10262856,
     110044805, 67997185, 129937289, 133494181, 60324287, 133407987, 36058564, 51921906, 28163874, 123017899,
     126914575, 124894435, 28280856, 10014369, 78043900, 12120276, 19024111, 100325896, 70338909, 35139404,
     127874643, 48258464, 17797951, 80982378, 110087663, 84781070, 68282511, 37522967, 119032624, 15123326,
     94400299, 49014774, 31055781, 66825389, 120488018, 117594222, 65248694, 52892592, 3333217, 21349379,
     481904, 127501415, 65994334, 91481208, 60500023, 54414461, 40527182, 97600819, 18885403, 55858894,
     46165549, 50480112, 42423277, 16228178, 112773900, 44469603, 233724, 43560039, 100761817, 45402183,
     112623544, 53453493, 16111676, 126148695, 124339150, 26271930, 95700403, 1573248, 121006215, 99308747,
     38900721, 33985568, 49958791, 8721112, 52734062, 52366531, 134055660, 116765655, 79077952, 10254327,
     48413585, 124207164, 57452267, 101422484, 36930712, 114656201, 6478434, 37666555, 13651266, 6927985,
     112028315, 88849207, 38335695, 85223357, 125572749, 19986950, 33463796, 130330594, 35665410, 58551241,
     68580291, 42359299, 25481107, 103774951, 50110092, 105380065, 128334329, 57411315, 118684248, 3893832,
     108979730, 102227653, 84677401, 53692682, 122597678, 117538003, 126258522, 74377153, 73716154, 27304692,
     96579397, 10814848, 6640560, 125287598, 98294684, 55148187, 60513461, 82532369, 101021390, 18598890,
     86502078, 116699475, 38414230, 65172784, 6573568, 122393849, 124389909, 73834272, 17087436, 22919395,
     63375475, 55682459, 46125647, 37815313, 39966263, 34325214, 99191263, 99152712, 131036254, 87619725,
     34919299, 54520484, 88046202, 32033077, 40377563, 64851593, 74802452, 89775015, 52931147, 16071569,
     22458983, 86329518, 21697230, 10089226, 27900177, 67190037, 121595880, 108961515, 66716382, 73871631,
     29531289, 60798761, 121636076, 44672257, 133744625, 101904522, 60392668, 57367747, 18736266, 73522498,
     25824443, 32760619, 12175495, 23447178, 45896454, 74608157, 12226475, 42854075, 32095026, 49433105,
     34676165, 108630251, 76452799, 27131018, 119084875, 2695323, 100617340, 116852034, 55402616, 51383630,
     55550512, 100105023, 70352657, 28186385, 50582073, 36270978, 45392851, 100946630, 8329487, 66860010,
     37247613, 77078659, 129880517, 48337875, 16894495, 92174451, 67564633, 71031470, 84507092, 106073866,
     115811289, 113901496, 28986082, 12428314, 36375806, 120365134, 33346884, 51614871, 53654494, 86676696,
     59842100, 57960138, 128036139, 41878080, 113908394, 109298725, 117157444, 129928181, 2927357, 17078806,
     4327648, 57069361, 95229059, 102500839, 120218351, 107944509, 63520992, 129960511, 78809494, 65743113,
     23983, 9816400, 52549071, 124854498, 124396650, 124575621, 110808707, 70848359, 114818256, 62834219,
     130491994, 60257105, 33348445, 105106867, 14635906, 30037983, 20720316, 20410253, 70110724, 130444534,
     91546565, 14615023, 126364723, 110782688, 96869670, 94087125, 86885593, 113616449, 102649791, 120109685,
     61381128, 11408960, 74021199, 104268601, 5307809, 183346, 104998343, 16864695, 31215933, 76421196,
     123469587, 5045476, 86638318, 95968578, 40772964, 129175825, 17175419, 84083747, 33795211, 70900936,
     85401545, 58710931, 93762077, 102521413, 15050194, 13347253, 9442473, 40312198, 70388699, 126639856,
     78234302, 25729775, 52087477, 35014973, 30008806, 106097395, 80673028, 154622, 1404137, 72138850,
     40469503, 133731061, 61832849, 37393548, 128706744, 42460721, 86513477, 112663864, 118618142, 32528686,
     63794252, 70635798, 31510040, 73417397, 33159615, 3930009, 128931459, 55272222, 94577013, 87194544,
     41258238, 7423410, 2924253, 26053704, 66882068, 118762358, 90524926, 86861466, 56373576, 10883993,
     34528332, 30580235, 89570878, 56951588, 124172984, 49689823, 30438711, 66161750, 4576478, 93391753,
     45372513, 96412921, 56446184, 48629752, 91612549, 53198298, 26585799, 906434, 106980148, 39206502,
     99204244, 113434075, 67763630, 9050631, 27543972, 66531138, 130172234, 26899085, 41837778, 102791600,
     110059140, 26029282, 30978634, 62426554, 29721551, 35570644, 102068654, 119364372, 39585217, 14630814,
     127765463, 83697774, 66540415, 81886009, 25140753, 120322996, 29974058, 65102676, 55972695, 122191282,
     89294283, 7572171, 127340586, 79832995, 19647200, 123738483, 52809304, 7295858, 28581541, 3171392,
     130744133, 80010830, 19046982, 55752022, 6957919, 95275607, 8071217, 24710131, 52790744, 60349922,
     120549988, 95567685, 118592588, 42171205, 98344519, 15194192, 133886184, 10651678, 125036631, 22230984,
     44190215, 25593109, 24899024, 87572805, 125611895, 70437138, 100167823, 62762334, 4280698, 41852730,
     89178266, 97358495, 50817437, 112625719, 50181809, 132202164, 44519683, 59382640, 22717819, 14624046,
     385302, 10501465, 37554983, 10839822, 47173083, 56396028, 128247029, 118805863, 16603844, 75313447,
     129422291, 101845078, 27837083, 51020143, 47865963, 103177473, 110269744, 41432906, 110328043, 107902496,
     58042367, 11778983, 6611207, 94657923, 63547269, 26268534, 50024878, 72682796, 123414062, 59907747,
     25907536, 43393824, 48888654, 98961388, 120392411, 63690921, 4064388, 84780255, 55136888, 33287747,
     108961243, 83940881, 102900437, 54327660, 5455881, 50407838, 4678076, 62283819, 8399337, 107822211,
     123490607, 8322022, 34496097, 26164598, 100299137, 8435817, 120601579, 81284442, 45509142, 48717584,
     36549455, 44959034, 128538922, 128011825, 82809450, 5849955, 35188193, 100185197, 96185221, 92553504,
     42477713, 124047792, 36994476, 39917141, 506217, 96847763, 101421944, 79935804, 123005125, 108133633,
     85091360, 127035431, 126600891, 8768726, 3255679, 110866303, 31388998, 14396377, 63778795, 96042338,
     128416522, 62511088, 128031710, 104200829, 51877136, 106005008, 33694933, 122613795, 57705312, 109360638,
     66232938, 17811668, 124567395, 66644552, 24553688, 1168389, 107718896, 124964252, 99118183, 40710220,
     110428340, 92893423, 103724719, 20309186, 81504283, 31694511, 43996545, 115593994, 42889111, 61845005,
     48567817, 105204288, 104991632, 79955780, 10605196, 68704012, 26482740, 52571125, 101050604, 21466432,
     33193052, 54728187, 8688319, 87180588, 4545111, 64651324, 74167997, 73097205, 43722546, 21567766,
     131567702, 57251144, 118577957, 14122579, 132583470, 9685828, 35553110, 83832604, 11285375, 27963061,
     12941619, 56513753, 66904217, 132665115, 95263873, 130475288, 59990372, 23245418, 31433295, 17841718,
     55947402, 61864140, 83256282, 119623235, 90477327, 31532215, 100391779, 72284915, 113680680, 103867574,
     89177643, 101947309, 16262455, 104656352, 112859819, 39449733, 39430772, 37500018, 76085910, 35925506,
     50059325, 34098886, 99061733, 34941579, 26734841, 58974969, 33209375, 24929120, 32929017, 31608813,
     20578557, 37762707, 118670995, 121811745, 77615529, 25266505, 43800334, 8697858, 53159561, 33776393,
     133204213, 33010746, 68091943, 70639964, 31055424, 87193292, 108507368, 13494578, 87688005, 62265710,
     133003816, 4969162, 13734825, 602919, 63721578, 118490768, 109938104, 31019536, 112817565, 60169425,
     122725409, 50180826, 5417277, 117693134, 39416722, 31258326, 16000985, 6763387, 25444081, 80596847,
     130589175, 111122217, 78274942, 26059929, 124845807, 10081977, 49960799, 68809268, 116249642, 23858409,
     60279041, 80938952, 34889659, 104018498, 104391364, 89221985, 126929985, 850876, 14197559, 85558069,
     80013504, 95255140, 83208009, 46935889, 29211874, 5027059, 49487224, 45636250, 18974291, 5927931,
     27377253, 134200784, 34213934, 5131948, 80453242, 98278038, 87462018, 122668984, 27305494, 109353051,
     1527375, 109901919, 43922648, 54894365, 91042534, 49903392, 24849754, 83351060, 41902202, 10460227,
     27300929, 4223373, 106740831, 66521692, 73557332, 64895215, 8492100, 54783656, 13608035, 106816356,
     53055826, 89124119, 73838220, 20743640, 85789548, 71671886, 12234294, 87652008, 21970008, 53388071,
     93335798, 36395401, 55000937, 132639158, 38024042, 89632067, 41284804, 56082257, 127934840, 6893514,
     41924502, 100037514, 76037035, 118607518, 47940118, 55576880, 55894353, 2444531, 115997184, 102899714,
     133764119, 107672149, 48825909, 86500401, 26467949, 52443042, 97714760, 54354615, 27335744, 126431410,
     788743, 58272536, 121014808, 21014049, 56875407, 15238985, 110108007, 12145096, 54521614, 77550420,
     118492503, 48952845, 61861787, 103757617, 21816364, 17444962, 1991036, 6938439, 74027500, 19125597,
     85988827, 108242334, 122110552, 53246742, 11949553, 76888572, 83509544, 124450376, 49773788, 98951877,
     67707886, 23043259, 19580598, 46700379, 38023212, 21718404, 69948760, 23056632, 124218479, 9005572,
     14601928, 51504006, 65835090, 101140549, 108020254, 106319873, 129771909, 108006314, 26486755, 40482119,
     16998722, 112379468, 126577479, 5838113, 130935645, 122513758, 64791794, 42214961, 7163810, 81556692,
     124308139, 85411830, 52062410, 11582241, 121362467, 95604667, 83261023, 92370863, 110669999, 119606424,
     21511900, 85942889, 105471722, 114969234, 29806413, 83356334, 54288997, 82507543, 113595359, 26321833,
     111291689, 63478973, 24557219, 75890364, 29277836, 5598567, 53652943, 125969921, 69510357, 21002242,
     51482749, 48212037, 16516391, 20061140, 33159683, 130284114, 97292107, 109474654, 120432899, 25849756,
     5516218, 118630018, 75476435, 113076421, 101664728, 90228330, 5117547, 89643540, 112501871, 43513763,
     15801589, 52322971, 80466181, 61167514, 73826707, 113952143, 84160208, 104432958, 41099366, 87111044,
     56381091, 41367463, 78198558, 33454956, 57141834, 52239157, 88428371, 49318305, 59967057, 67589148,
     58834689, 23993287, 3137377, 470848, 83066261, 132357149, 65699792, 62447903, 31574844, 59971013,
     102483985, 83023765, 104686457, 109920324, 61510513, 112279189, 24101347, 108787408, 63514358, 53733040,
     14371507, 9008782, 17241056, 48127131, 57794020, 49034073, 12309529, 107680467, 59319824, 67691645,
     68472683, 88193902, 5471626, 5456169, 85421131, 17484673, 11038203, 123765655, 98446049, 42107570,
     104372548, 96689574, 68649916, 10733117, 7283315, 100939634, 67635542, 120107081, 50715863, 87610038,
     127623339, 105259283, 18278537, 3470398, 115034003, 8909462, 133697524, 82426297, 98258703, 92952426,
     109386032, 14708658, 25998954, 17665398, 131765313, 118875963, 66017669, 38638813, 128397951, 108849896,
     122948971, 106699855, 22160892, 92091340, 105814776, 96781624, 124900800, 29679134, 8793436, 111808210,
     47096651, 81932492, 101492730, 33852498, 21309406, 43464935, 120331191, 82346833, 36908880, 121475391,
     109471556, 61257352, 19269947, 34112965, 67406549, 129429885, 123467936, 64438948, 27960685, 79441831,
     35281500, 82660167, 67915106, 31863178, 42825859, 49964824, 4943649, 26701563, 24440563, 54152216,
     21639836, 85439217, 125681985, 37339126, 91225099, 43999836, 120180312, 50578720, 22648173, 106317104,
     105343376, 35479229, 15445601, 103114880, 71232198, 6519166, 85405246, 115197595, 48288736, 129675117,
     117165647, 60805810, 74515014, 69988171, 77852145, 92439602, 118451833, 120272649, 14040355, 33827107,
     133272111, 71900607, 84527132, 114970823, 52916199, 99042364, 107061536, 49857352, 35534696, 50430939,
     132942424, 49518889, 77492016, 19622020, 48352122, 44403096, 102628135, 10923381, 59362035, 30876426,
     23723796, 82594052, 99803593, 128577889, 6481569, 39779906, 110034954, 69270678, 34044662, 41617218,
     85797050, 129648585, 132077652, 116809224, 78634183, 124615687, 89080108, 120221903, 41963013, 98386799,
     240379, 100276720, 4535640, 29747683, 20047398, 39053549, 82685106, 83969026, 58013314, 56060995,
     68810474, 48868539, 120197673, 6412435, 17719866, 65551200, 30502272, 82210966, 87658729, 6118140,
     2991649, 7300509, 351045, 76117714, 47642270, 40767129, 14275753, 70207784, 47936069, 71687448,
     30099528, 55463927, 78328247, 40420337, 79066537, 17948495, 27405162, 49155166, 83742407, 111195589,
     63740242, 21290077, 18085664, 1894083, 125707104, 107575881, 32693863, 94955367, 20040462, 60512479,
     12858685, 8545460, 85659109, 19420181, 116941973, 89318208, 104979219, 36206593, 53949203, 108927152,
     35465670, 129806716, 1542972, 7533716, 86563369, 110176740, 75474812, 119813019, 47020859, 79822539,
     86651515, 77641264, 59559685, 80783162, 125783099, 69468746, 98451706, 66149430, 33352705, 22159234,
     121266183, 53630, 5905846, 8258217, 71340400, 3385674, 54490884, 24918579, 31899367, 21369693,
     7835520, 122371934, 104538462, 14081833, 1657601, 82227093, 73943627, 88154191, 126288226, 26475543,
     19094692, 55455848, 26778888, 69559423, 81615514, 86260886, 68041437, 86918958, 86110063, 55733175,
     109170123, 82300116, 23439713, 68259917, 41524615, 8558687, 40301042, 84015441, 6508321, 133420655,
     119366861, 97214715, 105089015, 64146043, 96019176, 72263676, 852202, 50352953, 113337808, 58605830,
     100017365, 122441426, 62446885, 10801648, 99556663, 87983916, 60731809, 23540679, 30326282, 133762794,
     14130669, 35088103, 31178333, 86438868, 5210005, 16544553, 45032202, 119624761, 100616864, 124175314,
     93295980, 126547268, 113458723, 35339330, 95520640, 7050844, 35700265, 85344481, 74328134, 91165362,
     58526005, 92037619, 105823969, 123114592, 70228705, 130445100, 35607459, 39677040, 86168208, 124630644,
     129539006, 120014534, 29124647, 11465027, 118117667, 68105910, 2043828, 22786087, 34946088, 121427117,
     31690052, 112974134, 99841704, 27216185, 126795205, 21365625, 100146738, 122803638, 43871936, 25761344,
     118133719, 52171394, 44097734, 80695848, 32100552, 50928773, 121811767, 114343831, 84650589, 123705513,
     92991807, 131756265, 89286495, 112946992, 131400955, 71988473, 63014276, 63369627, 112704138, 71218380,
     93632731, 856538, 115094756, 3559020, 58681870, 128271418, 97257296, 31383927, 76549802, 118750303,
     41305617, 105924952, 28449609, 52554703, 83566919, 78561971, 10442454, 75860473, 122244128, 23024522,
     19407201, 4417590, 3610799, 15018030, 14318129, 83479287, 124681402, 21717938, 46286819, 131185491,
     19037655, 94051706, 3856428, 4143283, 5590093, 18576027, 92962582, 86375111, 85077682, 5723892,
     93550793, 9103678, 98889644, 6266501, 8826864, 114957212, 79251917, 102242856, 48775543, 26751229,
     109731263, 128120184, 109999928, 71658059, 119625605, 89142510, 8851446, 118073295, 116473106, 101438076,
     122729868, 95461883, 126745263, 51518491, 14376851, 33095058, 27611729, 27267733, 15028322, 4544696,
     4620689, 127406374, 113778682, 122287288, 108987347, 101167373, 85117226, 11739986, 110737714, 100854747,
     84763393, 84860396, 38569489, 64037337, 13405276, 17804483, 13134790, 106296050, 101651661, 86747628,
     27513753, 39521671, 42834095, 45166387, 56876827, 35052250, 2807628, 47097108, 34453994, 124835566,
     37929020, 6497216, 96067974, 101985606, 49395387, 122182980, 43060830, 103245309, 129385778, 80800195,
     67610478, 63898748, 114269930, 38607563, 82983580, 100080106, 4158247, 105905284, 55421310, 4194076,
     58579271, 69608315, 103753778, 13193537, 46544247, 62940285, 94577793, 6458167, 72193104, 75980310,
     29068104, 95883812, 115727802, 111109434, 12198987, 77113575, 110033190, 38535209, 22866843, 58526645,
     174356, 70270461, 27116701, 38699623, 102298204, 100732880, 131246913, 7242994, 585413, 46681418,
     65877147, 12843161, 65965878, 93309230, 106940913, 110775245, 24765747, 129809506, 66381627, 79531364,
     46598472, 128474096, 111647116, 69140956, 34973795, 77578838, 126684072, 21326574, 38081562, 109419787,
     28818470, 125935048, 93882502, 31075102, 66882788, 22252095, 14753647, 125991700, 85433834, 102919435,
     10855878, 65805838, 105752036, 133025233, 93571008, 75330322, 105620377, 14033524, 84279633, 43841444,
     47730114, 12770611, 53857623, 124621776, 52962242, 119700969, 119508463, 100021695, 11565931, 56657328,
     119245577, 86686222, 3378801, 49922283, 27664526, 40686900, 35325491, 57453355, 120959121, 73140201,
     67268607, 22965294, 50909474, 131856823, 118645603, 84657030, 31349982, 126690809, 61862026, 17029615,
     71342706, 79737187, 101264011, 92507526, 101064528, 81248554, 86744902, 4547848, 46772924, 78058491,
     43843590, 70025708, 20847602, 116500749, 113159781, 60439125, 88865581, 74321185, 99587843, 43397143,
     22756687, 62163898, 58894474, 92484250, 103808713, 34522530, 77734850, 31007578, 16919090, 44835935,
     62011002, 86261858, 118799536, 93491215, 31935821, 68142798, 25712599, 35900931, 40467677, 101298815,
     94377364, 110934180, 113234445, 82856959, 20749300, 97084527, 20936048, 130831057, 33229763, 97060877,
     43830486, 80919210, 70085646, 46792606, 21598901, 31703979, 44033490, 128284392, 25403847, 34720537,
     130882176, 128173700, 97808793, 133536618, 13664246, 22092442, 129169223, 88301822, 13641620, 26230445,
     51570866, 20261520, 132047801, 19907059, 106688034, 40547885, 98420866, 39916943, 58374377, 36751573,
     26332301, 14667188, 85628341, 122326373, 14343810, 37688929, 27708439, 118815990, 52122275, 62265799,
     4554223, 1693465, 53555708, 114665913, 106166799, 58589803, 93071854, 29857025, 67174168, 131651656,
     84876303, 39757072, 62180288, 2968533, 19033755, 34522619, 81028420, 99084947, 54319709, 740567,
     99448060, 32518840, 121870218, 114473135, 57717430, 94108359, 77038027, 78843095, 100542507, 86865861,
     56526440, 113547332, 30677423, 89643448, 96934672, 87575082, 118121967, 117790421, 103891011, 86126488,
     93962949, 78351121, 114413095, 30682998, 91213901, 24361182, 86105883, 16671921, 60921788, 58053039,
     42012065, 34870850, 84325903, 94039675, 13135460, 120090537, 56315128, 32533856, 105009004, 53704801,
     95717436, 95648317, 84505455, 20999490, 33562617, 114010102, 56851924, 64792748, 61095168, 2638359,
     83425548, 115230952, 54941311, 69558641, 90629850, 88731771, 124848978, 117171116, 24570175, 120057008,
     87844120, 44030605, 104445474, 1427017, 52171561, 111651892, 65745233, 121895461, 130811223, 14278084,
     5119806, 33718594, 72928533, 29243558, 21587929, 96128894, 104930305, 127684848, 126243546, 26818248,
     69688525, 46735618, 13567666, 113703823, 77116204, 61308603, 72616531, 27512207, 96273852, 63852141,
     68745134, 2161771, 85800197, 106376515, 111264526, 49649003, 70019814, 46016792, 55076063, 99604308,
     127234731, 61325367, 28197723, 132912859, 91853281, 24669572, 52679520, 68960007, 102368080, 125183804,
     16427528, 97859015, 132133104, 82409992, 47710778, 85573037, 7599180, 33884301, 36823602, 51249253,
     53644702, 8254904, 1786215, 10091154, 56181191, 122867694, 56444871, 84364535, 93717893, 90581411,
     47261417, 77869804, 35588834, 14664424, 30122122, 40734460, 99518502, 53751205, 126155452, 127988647,
     70743002, 130392670, 29382030, 133443325, 107573811, 128963307, 52608350, 62024233, 28455873, 22083292,
     17354242, 124744495, 104234495, 9246924, 108658969, 107158572, 85134096, 25927110, 62969404, 86194528,
     75437599, 96731353, 30331435, 109339038, 129367664, 19631149, 47396536, 89394078, 85737812, 111494541,
     109889309, 106737563, 109545712, 55470372, 62827436, 133699477, 39505957, 101990431, 73587246, 87188846,
     16799506, 104669250, 111903289, 63002019, 47613224, 105172134, 114174945, 30931003, 35893106, 94516167,
     50485796, 92268178, 34030791, 131921405, 57190773, 91109492, 24949696, 64635095, 361723, 108103866,
     96876934, 107228279, 37743594, 48046916, 32878944, 87832447, 40509631, 42992691, 64364119, 65084754,
     57511393, 83666490, 85537118, 11465080, 88484973, 120395124, 48644745, 20502182, 124651521, 40690611,
     114681728, 51688682, 7658849, 11446078, 111118840, 75777892, 121575216, 43580614, 105231856, 126515334,
     18844398, 71222344, 111578955, 46325277, 84981608, 78175833, 2011365, 88221745, 1540693, 28152097,
     127744216, 9663621, 88041023, 39324772, 33557996, 81631301, 13624701, 77643226, 19157238, 114645272,
     31358823, 24919329, 104193970, 60661014, 46498936, 105345507, 20491276, 27989887, 121344539, 54020531,
     106256732, 71742291, 22536869, 81807500, 119606162, 92345296, 81653655, 131154098, 104861823, 12134061,
     89718903, 121016431, 119978908, 73618558, 105773478, 85442367, 112582235, 39868539, 26490621, 66365510,
     92985063, 28601901, 71242163, 10551530, 99577734, 112646152, 58866038, 90090765, 118471636, 15700873,
     74499401, 15894409, 35499827, 56242348, 31430536, 111005292, 18701665, 63517439, 66179637, 74786531,
     7845626, 65011125, 62692316, 121529232, 19383836, 94008999, 65950864, 33093610, 66864005, 22094437,
     72416196, 80477167, 115813483, 98594883, 886747, 21522806, 112845905, 43041479, 62808582, 93400178,
     75506730, 66787613, 89295127, 39838161, 112818843, 62513496, 50325994, 57151806, 56212640, 134211071,
     128931366, 90723996, 10119524, 24228846, 85502184, 48368744, 85379403, 86774653, 3829167, 2759485,
     81829239, 6156605, 91615419, 98856899, 125022878, 134081642, 44353024, 108528398, 131763240, 12613208,
     68535005, 64984383, 65052051, 101625873, 120468700, 19393035, 4549578, 28636938, 96393040, 55779753,
     83923373, 17032443, 45447002, 12678919, 115654075, 88452642, 49144939, 45810041, 63690811, 104491721,
     70536464, 74373470, 103424743, 122451150, 28283069, 38138109, 58410150, 45896468, 56692038, 33765416,
     74360327, 7075996, 110961132, 38808820, 39310067, 47671253, 111096586, 66267357, 54187683, 44791387,
     67612069, 132108732, 36466681, 117167332, 67971076, 46279641, 130861688, 27317535, 87853442, 66061022,
     106293882, 15828058, 44412145, 25811244, 42559635, 95721535, 40160565, 17122249, 78712142, 130560255,
     85204217, 11754281, 105255629, 133747424, 5375567, 53536544, 96996002, 74396090, 118863400, 54496309,
     73202498, 77046889, 6670565, 53483360, 40319864, 14562692, 833583, 6227256, 25493421, 110321767,
     123672409, 63760548, 81696400, 102808619, 88317305, 8073031, 105901409, 67221981, 122114266, 72967444,
     82106366, 50471799, 82771958, 19736937, 84129586, 90422530, 93469696, 92492772, 80035139, 117617990,
     91399489, 11140502, 28521454, 5298135, 89523516, 85039187, 61455523, 83923346, 102364473, 23341044,
     13604527, 89069522, 24333426, 116662834, 4963055, 56582357, 103956318, 13503073, 122686124, 124891339,
     88008905, 1802069, 49508801, 117027399, 110408937, 18615439, 105567618, 41519704, 75443981, 95312407,
     34628537, 115756146, 40539173, 24800258, 56610985, 4595725, 42745271, 2736975, 57804228, 76011883,
     86136221, 77615281, 125340368, 122652538, 7330681, 66808897, 76169551, 70082327, 5285419, 110696909,
     15951364, 103854611, 108760895, 56515256, 77218321, 93376902, 123296389, 54310997, 59924416, 9021960,
     1896556, 91263057, 51961432, 79706905, 79452978, 133295147, 125858567, 88502788, 131638668, 20843473,
     63813605, 103332436, 55353685, 73659398, 13696006, 11129969, 86504107, 63376607, 28491325, 120228520,
     20369449, 84140421, 2084409, 57310943, 642001, 1251911, 91772858, 89840815, 16330385, 132425682,
     129701093, 115221490, 11829855, 29292375, 116708911, 16286981, 17309857, 63395297, 2385998, 36969722,
     96549661, 76368509, 32516980, 60502221, 98456410, 99885820, 25153788, 123856544, 6729503, 49106734,
     103887619, 100293098, 95771334, 93260211, 114822607, 19434667, 97941598, 101918044, 11313160, 39345028,
     84372371, 74824896, 95191930, 66853417, 61817963, 89864306, 125137456, 119454712, 34098089, 122610731,
     129428224, 7068021, 96262311, 4290770, 1530212, 8127013, 1976968, 118558803, 87335137, 92159162,
     109701980, 82976585, 10694545, 52203809, 41750115, 41942343, 97904037, 80546652, 22279744, 128540210,
     115557108, 112060425, 65273902, 81731644, 8023404, 42450315, 49333816, 127340406, 77170258, 97679163,
     58884504, 63055762, 90849223, 22343260, 19449024, 129702011, 107019950, 15663934, 48756682, 128029292,
     86555501, 22015157, 84517807, 107622296, 56098276, 64016788, 51772808, 104433918, 105527650, 60767818,
     126825276, 36504638, 105310478, 101303485, 76076828, 44813359, 39243692, 37568495, 8138668, 83462936,
     130721516, 87368629, 94390724, 107633919, 111052913, 80517599, 44565657, 116710127, 81312189, 97403072,
     131190843, 2080452, 111573637, 20283041, 80683283, 111753031, 41419287, 78472842, 57520599, 131048515,
     119201989, 33032463, 50556711, 51990142, 91915247, 50492695, 80769823, 103541655, 120274645, 31454364,
     108378324, 60568363, 38025131, 92416181, 226157, 43154473, 35305242, 35973439, 56706992, 21109823,
     78737892, 123560335, 109519810, 102451620, 119109519, 105104599, 5676950, 38724692, 111834369, 18880373,
     108951564, 119535982, 116394305, 133256152, 76760223, 19729874, 36755347, 130911988, 114243786, 107006409,
     108318121, 73530927, 91890663, 104293233, 122641353, 67105635, 46553854, 71747077, 11417037, 72475048,
     74312914, 65063717, 107023683, 51235979, 26901332, 105721984, 100688011, 96930781, 125053707, 131838918,
     31411273, 41536412, 81456498, 7725663, 90954251, 53082563, 62454585, 95071695, 27727517, 124285481,
     34189901, 78703710, 100815442, 1257568, 106255474, 51670345, 61702232, 72552991, 11771026, 71961096,
     108256657, 47661401, 103638403, 8406222, 31254803, 53443693, 77791310, 69932752, 120383786, 34835074,
     118795304, 111847392, 70042665, 43082924, 63966320, 67936810, 79098350, 27094483, 25387474, 28547258,
     25811953, 12373310, 24252240, 108161361, 94095238, 38895812, 48697650, 77559864, 75756619, 48169474,
     54021466, 104641315, 69419739, 115017979, 19999652, 33058476, 5985366, 123831710, 133834078, 66205392,
     50202854, 116282456, 14242953, 49884479, 84925255, 62201039, 105675999, 10970882, 20958762, 42384544,
     80156490, 4074687, 46294601, 37654525, 69720313, 81488501, 2760873, 12627843, 4506907, 27466822,
     132929860, 116872846, 116243624, 75896683, 65272165, 78747012, 76126141, 28666638, 35110943, 124217880,
     104581217, 37557407, 57170039, 13033582, 127037023, 59976769, 102978412, 79607240, 109901601, 81701391,
     129314513, 17569612, 34090703, 113245766, 5082895, 45478761, 26976301, 133494877, 24257894, 50761416,
     11228168, 3693575, 6844769, 4672128, 74810310, 49611341, 116858935, 94700047, 61509425, 65341950,
     127131711, 113495263, 122127356, 120098208, 8614876, 115825904, 80271352, 85878149, 53337679, 123769508,
     16094857, 94808230, 128754611, 12073841, 34519954, 42776610, 75762710, 31300632, 85984302, 12050503,
     128368522, 123599213, 89888496, 67981415, 52763443, 24517590, 60175636, 114044055, 21438386, 49782844,
     129623252, 31558427, 133105835, 96732260, 29759004, 23102090, 5185054, 126394671, 34341241, 126321350,
     47246106, 7955994, 121165661, 74200248, 121409635, 3729374, 112369484, 123360858, 6313905, 34615187,
     105545229, 68898560, 95242009, 99263493, 86796813, 102226910, 132261642, 64884206, 7485029, 13563610,
     19434400, 42638631, 101327774, 775444, 126081524, 26702843, 90850526, 100424839, 40103282, 79159693,
     79385133, 59227619, 101723320, 87579139, 14149224, 63179690, 43475593, 49887120, 34495369, 52351371,
     16662267, 50329386, 64600756, 50955232, 22626044, 59241669, 32005218, 108388069, 19213174, 122715064,
     90951662, 119745001, 1693030, 62800234, 96264539, 122485332, 26186382, 107219738, 4833527, 21066300,
     124510957, 111781380, 29602030, 10440325, 125356239, 83034279, 116333478, 50076021, 119280308, 100540927,
     18758643, 104463688, 60028231, 128574397, 13017431, 124277547, 124658557, 51684447, 113044789, 2917374,
     84338480, 10087003, 60711220, 130501409, 45604375, 43294016, 110469354, 31391091, 64094104, 15516963,
     84313315, 49127994, 19161981, 44557477, 29749479, 98792682, 7613688, 24191358, 95794470, 60582886,
     74272612, 119362104, 19422775, 58917693, 116866482, 20051053, 35755171, 56138312, 55268400, 33119160,
     20895883, 3411821, 36387383, 76637027, 112684286, 39802408, 44897018, 107930438, 22521447, 34986822,
     65901835, 14661654, 42690210, 61228067, 121221187, 64751504, 15323392, 20584842, 131348390, 68915119,
     7630670, 84691487, 120129912, 105710497, 89695024, 124182051, 28341220, 75154208, 64082972, 112109691,
     38417563, 15997291, 34600409, 101314366, 27061223, 130285180, 48892827, 57990042, 133012579, 35100994,
     133960785, 32034416, 124162105, 31963674, 13094932, 52364413, 38846452, 55785718, 120285856, 21769268,
     7715152, 111712527, 97505543, 131336411, 39396181, 19374485, 131349653, 85873771, 2151312, 59338943,
     108316803, 68154745, 45755623, 68556325, 18809732, 59459559, 258104, 105973612, 111701999, 126654053,
     70677266, 38439214, 24940422, 48331697, 58418183, 5442247, 122404068, 54887071, 29295021, 37157808,
     76683936, 24251327, 18532044, 113195399, 24176622, 70015044, 103407477, 30926485, 95511790, 23572323,
     26402172, 80618143, 10638997, 111262589, 11733449, 119363222, 81678972, 98092941, 66502244, 102177226,
     36760685, 23530777, 27653135, 18393308, 82199408, 89912393, 94993617, 84348413, 108928922, 25793948,
     78239956, 41345015, 27151017, 1347056, 8817473, 92911279, 98343376, 69734429, 54777338, 112886205,
     96859024, 122976735, 7431877, 69586413, 108803219, 46659633, 44992386, 37816886, 112998962, 85789417,
     116031941, 126921983, 66171636, 12123886, 2073011, 54964410, 122167118, 102405531, 63970094, 17888799,
     117039693, 89319514, 35736751, 33331628, 24971499, 75581707, 111618525, 132300211, 49271450, 4921873,
     21942998, 94255373, 49816966, 77164419, 79845461, 115168628, 622701, 47802567, 69769460, 125106882,
     59829885, 130021409, 69206073, 9575332, 16209737, 47877910, 95910639, 32846574, 109593542, 111406782,
     116161670, 122479602, 43081042, 104572300, 95453827, 116513262, 51189181, 77351257, 100839927, 120533222,
     8215199, 39130059, 117145682, 14453712, 128050689, 98105897, 66411406, 59920010, 68895848, 3441589,
     71203914, 107978450, 72119406, 18035055, 2776670, 32687091, 129845758, 11889838, 30024369, 83091388,
     24480485, 22532530, 13780860, 41864241, 33615914, 74539188, 109676509, 128225449, 4036404, 2610691,
     12948170, 124327449, 93813799, 99153159, 26183856, 35087104, 2373955, 112384779, 80449872, 85474840,
     77374175, 62268986, 70183962, 31993126, 94307461, 59621171, 13806249, 47070125, 116705821, 12603887,
     96247283, 24021130, 6062698, 36643194, 16515379, 62390487, 66248784, 78638446, 67210270, 102208325,
     37530342, 14769319, 16379580, 16313232, 54445490, 118707253, 18381739, 72692011, 79431673, 30525559,
     115573576, 30471879, 19759605, 89761543, 76885474, 62015934, 100204073, 53232400, 22055064, 127264497,
     110865700, 2484209, 125839986, 85227113, 52176436, 93129552, 56436417, 80133382, 112705673, 80905134,
     70546908, 4859658, 53101025, 130257203, 126338065, 6974724, 104274710, 48755221, 45439218, 53781956,
     32262866, 112550755, 44974016, 96036617, 58462810, 113149065, 131697241, 75755780, 107961847, 132315445,
     122510027, 43034187, 109393246, 53766554, 113767063, 75306979, 7187785, 43604623, 69440829, 19680239,
     128561925, 91290062, 125404056, 47435208, 33458391, 116836078, 56658153, 89002243, 84918190, 1550817,
     48913231, 14633151, 71242545, 25165258, 9296485, 43533553, 58121716, 26948888, 67749707, 89810500,
     2795478, 30263205, 18710850, 56469151, 130150417, 53291368, 104230746, 133882924, 125753247, 60898787,
     84988211, 6276270, 108618191, 131558902, 118698529, 130633197, 118734670, 5404517, 4613553, 116179760>>)

\* a generator seeded with random.seed(sd), and one found in a state from
\* which its next outputs are outs; pos counts the outputs consumed
Seeded(sd) == [seed |-> sd, outs |-> <<>>, pos |-> 0]
Given(outs) == [seed |-> 0, outs |-> outs, pos |-> 0]
\* the k-th output before the position of r (k = 0: the last one consumed)
Output(r, k) ==
  IF r.outs # <<>> THEN r.outs[r.pos - k] ELSE MTOutputs[r.seed][r.pos - k]

\* the generator after one call of random.random(): two outputs
NextRng(r) == [r EXCEPT !.pos = @ + 2]
\* (a * 2^26 + b) / 2^53 for a below 2^27 and b below 2^26
RandomOf(a, b) ==
  RoundPack(FALSE,
            <<b % Base, (b \div Base) + (a % 4) * 2 ^ 12,
              (a \div 4) % Base, a \div 2 ^ 16>>, -53, FALSE)
\* random.random() as drawn by the call that led to r: a and b are the
\* high 27 and 26 bits of two outputs
random(r) == RandomOf(Output(r, 1), Output(r, 0) \div 2)
\* random.uniform(a, b) = a + (b - a) * random(), drawn by the call that
\* led to r
uniform(r, a, b) == FAdd(a, FMul(FSub(b, a), random(r)))

\* getrandbits(k) of the last output consumed
getrandbits(r, k) == Output(r, 0) \div 2 ^ (27 - k)
RECURSIVE randbelow(_, _, _)
RandbelowTry(r1, n, k) ==
  IF getrandbits(r1, k) < n THEN r1 ELSE randbelow(r1, n, k)
\* _randbelow(n): outputs are consumed until getrandbits(k) is below n;
\* the generator after the call
randbelow(r, n, k) == RandbelowTry([r EXCEPT !.pos = @ + 1], n, k)
\* the generator after one call of random.randint(a, b)
NextRngInt(r, a, b) == randbelow(r, b - a + 1, BitLenInt(b - a + 1))
\* random.randint(a, b) as drawn by the call that led to r
randint(r, a, b) == a + getrandbits(r, BitLenInt(b - a + 1))

\* ------------------------------------------------------------------------
\* Scenario (01_data_generator.py, RealisticDrivingScenario)
\* ------------------------------------------------------------------------
VehicleState ==
  [speed_kmh |-> FZero, rpm |-> Fl(800), throttle_pct |-> FZero,
   brake_pressure |-> FZero, brake_active |-> FALSE, steering_angle |-> FZero]

\* an event dict: key/value is its optional parameter ("" when it has none)
Ev(off, type, key, value) ==
  [time_offset |-> off, type |-> type, key |-> key, value |-> value]

\* start_sec = start * scale and end_sec = end * scale, in floats
DrivingPhase(name, start, end, target, evs, scale) ==
  [name |-> name, start_sec |-> FMul(Fl(start), scale),
   end_sec |-> FMul(Fl(end), scale), target_speed |-> target, events |-> evs]

\* scale = self.duration / 600.0
scale_of(D) == FDiv(FromInt(D), Fl(600))

PhasesScaled(scale) ==
  << DrivingPhase("departure", 0, 60, 40,
       <<Ev(5, "start_engine", "", 0)>>, scale),
     DrivingPhase("city_driving", 60, 180, 50,
       <<Ev(20, "traffic_stop", "", 0), Ev(50, "right_turn", "steering", 450),
         Ev(80, "traffic_stop", "", 0), Ev(100, "left_turn", "steering", -400)>>,
       scale),
     DrivingPhase("highway_merge", 180, 240, 100,
       <<Ev(10, "hard_acceleration", "throttle", 95),
         Ev(40, "lane_change_right", "steering", 180)>>, scale),
     DrivingPhase("highway_cruise", 240, 360, 100,
       <<Ev(30, "slight_curve_right", "steering", 80),
         Ev(70, "slight_curve_left", "steering", -90)>>, scale),
     DrivingPhase("overtaking", 360, 390, 120,
       <<Ev(5, "hard_acceleration", "throttle", 90),
         Ev(10, "lane_change_left", "steering", -200),
         Ev(20, "lane_change_right", "steering", 190)>>, scale),
     DrivingPhase("emergency_braking", 390, 420, 60,
       <<Ev(5, "emergency_brake", "brake", 100),
         Ev(8, "evasive_steering", "steering", -350)>>, scale),
     DrivingPhase("highway_exit", 420, 480, 50,
       <<Ev(10, "deceleration", "", 0), Ev(30, "exit_curve", "steering", 300)>>,
       scale),
     DrivingPhase("city_return", 480, 570, 40,
       <<Ev(20, "traffic_stop", "", 0), Ev(40, "pedestrian_stop", "brake", 70),
         Ev(60, "right_turn", "steering", 380)>>, scale),
     DrivingPhase("parking", 570, 600, 0,
       <<Ev(10, "parking_maneuver", "steering", -500),
         Ev(25, "full_stop", "", 0)>>, scale) >>

\* self.phases of a scenario constructed with duration D
create_phases(D) == PhasesScaled(scale_of(D))

\* ms / 1000.0: time_sec of a tick, and dt of dt_ms
Seconds(ms) == FDiv(FromInt(ms), Fl(1000))

\* phase.start_sec <= time_sec
StartLeq(phase, time_sec) == FLe(phase.start_sec, time_sec)

\* a window that is closed at its end: time_sec <= phase.end_sec
BeforeEnd_inclusive(phase, time_sec) == FLe(time_sec, phase.end_sec)

\* time_sec < phase.end_sec
BeforeEnd(phase, time_sec) == FLt(time_sec, phase.end_sec)

InPhase(phase, time_sec) ==
  StartLeq(phase, time_sec) /\ BeforeEnd(phase, time_sec)

RECURSIVE PhaseFrom(_, _, _)
\* the first phase from the i-th on whose window holds time_sec; the last
\* phase when there is none
PhaseFrom(phases, time_sec, i) ==
  IF i > Len(phases) THEN Len(phases)
  ELSE IF InPhase(phases[i], time_sec) THEN i
  ELSE PhaseFrom(phases, time_sec, i + 1)

\* index of the phase _get_current_phase returns
get_current_phase(phases, time_sec) == PhaseFrom(phases, time_sec, 1)

\* event.get(key, default); the parameters are whole numbers
EventGet(event, key, default) ==
  IF event.key = key THEN Fl(event.value) ELSE default

SteeringEvents ==
  {"right_turn", "left_turn", "lane_change_right", "lane_change_left",
   "exit_curve", "evasive_steering", "parking_maneuver",
   "slight_curve_right", "slight_curve_left"}

\* the state after _apply_event
apply_event(st, event) ==
  CASE event.type \in {"emergency_brake", "pedestrian_stop"} ->
         [st EXCEPT !.brake_pressure = EventGet(event, "brake", Fl(100)),
                    !.brake_active = TRUE, !.throttle_pct = Fl(0)]
    [] event.type = "traffic_stop" ->
         [st EXCEPT !.brake_pressure = Fl(50),
                    !.brake_active = TRUE, !.throttle_pct = Fl(0)]
    [] event.type = "hard_acceleration" ->
         [st EXCEPT !.throttle_pct = EventGet(event, "throttle", Fl(90)),
                    !.brake_pressure = Fl(0), !.brake_active = FALSE]
    [] event.type \in SteeringEvents ->
         [st EXCEPT !.steering_angle = EventGet(event, "steering", Fl(0))]
    [] event.type = "deceleration" ->
         [st EXCEPT !.throttle_pct = Fl(10),
                    !.brake_pressure = Fl(20), !.brake_active = TRUE]
    [] event.type = "full_stop" ->
         [st EXCEPT !.brake_pressure = Fl(30),
                    !.brake_active = TRUE, !.throttle_pct = Fl(0)]
    [] OTHER -> st

\* the record _apply_event appends to self.events (description omitted)
\* a record stamped one tick after the event
EventRecord_next_tick(st, event, timestamp) ==
  [timestamp |-> timestamp + 10, type |-> event.type, speed_kmh |-> st.speed_kmh]

EventRecord(st, event, timestamp) ==
  [timestamp |-> timestamp, type |-> event.type, speed_kmh |-> st.speed_kmh]

\* --- event schedule of generate_timeline ---------------------------------
dt_ms == 10

\* all (phase, event) index pairs, in the order the schedule is filled
ScheduleEntries(phases) ==
  UNION {{<<i, j>> : j \in 1..Len(phases[i].events)} : i \in 1..Len(phases)}

\* event_time_ms = int((phase.start_sec + event["time_offset"] * scale) * 1000)
event_time_ms(phase, event, scale) ==
  FTrunc(FMul(FAdd(phase.start_sec, FMul(Fl(event.time_offset), scale)),
              Fl(1000)))

EntryTime(phases, scale, e) ==
  event_time_ms(phases[e[1]], phases[e[1]].events[e[2]], scale)

\* the entry written last among the entries es
LastEntry(es) ==
  CHOOSE e \in es : \A f \in es : f[1] < e[1] \/ (f[1] = e[1] /\ f[2] <= e[2])

\* the dict event_schedule: event_time_ms -> event, a later entry with the
\* same key replacing the earlier one
ScheduleOf(phases, times) ==
  [ms \in {times[e] : e \in DOMAIN times} |->
     LET last == LastEntry({e \in DOMAIN times : times[e] = ms})
     IN  phases[last[1]].events[last[2]]]

build_schedule(phases, scale) ==
  ScheduleOf(phases,
             [e \in ScheduleEntries(phases) |-> EntryTime(phases, scale, e)])

\* a condition that needs the countdown to be below zero
EventDue_strict(schedule, ms, active) == ms \in DOMAIN schedule /\ active < 0

\* a schedule hit that is applied whatever the countdown
EventDue_any_time(schedule, ms, active) == ms \in DOMAIN schedule

\* line 311: an event is applied at ms
EventDue(schedule, ms, active) == ms \in DOMAIN schedule /\ active <= 0

\* --- _update_physics -------------------------------------------------------
\* Returns the new state and the generator after the draws made
\* ([st |-> ..., rng |-> ...]).  Every operation is the float operation of
\* the source, in its order.
\* the float literals 0.12 and 0.4
ThrottleGain == Dec(12, 100)
BrakeGain == Dec(4, 10)

\* speed_diff < -5: throttle 10, brake towards the gap
CruiseBrake(st, r, bp) ==
  [st |-> [st EXCEPT !.throttle_pct = FMax(Fl(0), Fl(10)),
                     !.brake_pressure = bp,
                     !.brake_active = FGt(bp, Fl(10))],
   rng |-> r]

\* |speed_diff| <= 5: throttle 25 + random.uniform(-5, 5)
CruiseHold(st, r1) ==
  [st |-> [st EXCEPT !.throttle_pct =
                        FAdd(Fl(25), uniform(r1, Fl(-5), Fl(5)))],
   rng |-> r1]

\* a controller whose throttle is not capped at 60: 30 + speed_diff
Cruise_throttle_uncapped(st, r, speed_diff) ==
  IF FGt(speed_diff, Fl(5))
  THEN [st |-> [st EXCEPT !.throttle_pct = FAdd(Fl(30), speed_diff)],
        rng |-> r]
  ELSE IF FLt(speed_diff, Fl(-5))
  THEN CruiseBrake(st, r, FMin(Fl(30), FNeg(speed_diff)))
  ELSE CruiseHold(st, NextRng(r))

Cruise(st, r, speed_diff) ==
  IF FGt(speed_diff, Fl(5))
  THEN [st |-> [st EXCEPT !.throttle_pct =
                             FMin(Fl(60), FAdd(Fl(30), speed_diff))],
        rng |-> r]
  ELSE IF FLt(speed_diff, Fl(-5))
  THEN CruiseBrake(st, r, FMin(Fl(30), FNeg(speed_diff)))
  ELSE CruiseHold(st, NextRng(r))

\* a controller that releases the brake once the speed is at or below the
\* target
CruiseControl_releasing(st, r, target_speed) ==
  IF st.brake_active /\ FLe(st.speed_kmh, Fl(target_speed))
  THEN [st |-> [st EXCEPT !.brake_active = FALSE], rng |-> r]
  ELSE IF ~st.brake_active /\ FLt(st.throttle_pct, Fl(50))
  THEN Cruise(st, r, FSub(Fl(target_speed), st.speed_kmh))
  ELSE [st |-> st, rng |-> r]

\* speed_diff = target_speed - speed_kmh; the controller acts when the
\* brake is not active and the throttle is below 50
CruiseControl(st, r, target_speed) ==
  IF ~st.brake_active /\ FLt(st.throttle_pct, Fl(50))
  THEN Cruise(st, r, FSub(Fl(target_speed), st.speed_kmh))
  ELSE [st |-> st, rng |-> r]

Accelerate(st, dt) ==
  IF FGt(st.throttle_pct, Fl(0)) /\ ~st.brake_active
  THEN [st EXCEPT !.speed_kmh =
          FMin(Fl(140),
               FAdd(st.speed_kmh,
                    FMul(FMul(st.throttle_pct, ThrottleGain), dt)))]
  ELSE st

Brake(st, dt) ==
  IF st.brake_active
  THEN [st EXCEPT !.speed_kmh =
          FMax(Fl(0),
               FSub(st.speed_kmh,
                    FMul(FMul(st.brake_pressure, BrakeGain), dt)))]
  ELSE st

Coast(st, dt) ==
  IF IsZero(st.throttle_pct) /\ ~st.brake_active
  THEN [st EXCEPT !.speed_kmh =
          FMax(Fl(0), FSub(st.speed_kmh, FMul(Fl(3), dt)))]
  ELSE st

\* gear = min(6, max(1, int(speed_kmh / 25) + 1))
Gear(st) == Min(6, Max(1, FTrunc(FDiv(st.speed_kmh, Fl(25))) + 1))
\* base_rpm + throttle_rpm + random.uniform(-30, 30), where
\* base_rpm = 800 + (speed_kmh / gear) * 80, throttle_rpm = throttle_pct * 15
RawRpm(st, r) ==
  FAdd(FAdd(FAdd(Fl(800), FMul(FDiv(st.speed_kmh, Fl(Gear(st))), Fl(80))),
            FMul(st.throttle_pct, Fl(15))),
       uniform(r, Fl(-30), Fl(30)))

\* an engine speed without the clamp to 800..6500
Rpm_unclamped(st, r) == [st EXCEPT !.rpm = RawRpm(st, r)]

Rpm(st, r) ==
  [st EXCEPT !.rpm = FMin(Fl(6500), FMax(Fl(800), RawRpm(st, r)))]

\* a steering wheel that moves away from the centre: angle *= (1 + 2.0 * dt)
Steer_diverging(st, r, dt) ==
  [st EXCEPT !.steering_angle =
     FAdd(FMul(st.steering_angle, FAdd(Fl(1), FMul(Fl(2), dt))),
          uniform(r, Fl(-3), Fl(3)))]

\* steering_angle *= (1 - 2.0 * dt); steering_angle += random.uniform(-3, 3)
Steer(st, r, dt) ==
  [st EXCEPT !.steering_angle =
     FAdd(FMul(st.steering_angle, FSub(Fl(1), FMul(Fl(2), dt))),
          uniform(r, Fl(-3), Fl(3)))]

\* a release that also acts while the brake is active
BrakeRelease_always(st, dt) ==
  [st EXCEPT !.brake_pressure =
     FMax(Fl(0), FSub(st.brake_pressure, FMul(Fl(100), dt)))]

BrakeRelease(st, dt) ==
  IF ~st.brake_active
  THEN [st EXCEPT !.brake_pressure =
          FMax(Fl(0), FSub(st.brake_pressure, FMul(Fl(100), dt)))]
  ELSE st

\* the steering draw and the brake release, with the generator r5
PhysicsSteer(s4, r5, dt) ==
  [st |-> BrakeRelease(Steer(s4, r5, dt), dt), rng |-> r5]
\* the engine speed draw with the generator r4
PhysicsRpm(s3, r4, dt) == PhysicsSteer(Rpm(s3, r4), NextRng(r4), dt)
\* the speed update after the cruise controller returned c
PhysicsSpeed(c, dt) ==
  PhysicsRpm(Coast(Brake(Accelerate(c.st, dt), dt), dt), NextRng(c.rng), dt)

update_physics(st, r, dt, target_speed) ==
  PhysicsSpeed(CruiseControl(st, r, target_speed), dt)

\* --- event recovery (lines 319-325) ---------------------------------------
\* a countdown that counts ticks instead of milliseconds
Countdown_per_tick(active) == IF active > 0 THEN active - 1 ELSE active

Countdown(active) == IF active > 0 THEN active - dt_ms ELSE active

\* a recovery that counts as over one second early
RecoveryExpires_early(active) == active > 0 /\ active - dt_ms <= 1000

RecoveryExpires(active) == active > 0 /\ active - dt_ms <= 0

Recover(st, active) ==
  IF RecoveryExpires(active)
  THEN [st EXCEPT !.brake_pressure = Fl(0), !.brake_active = FALSE,
                  !.throttle_pct = Fl(30)]
  ELSE st

TimelineSample(timestamp, st) ==
  [timestamp |-> timestamp, speed_kmh |-> st.speed_kmh, rpm |-> st.rpm,
   throttle_pct |-> st.throttle_pct, brake_pressure |-> st.brake_pressure,
   brake_active |-> st.brake_active, steering_angle |-> st.steering_angle]

\* a range that includes its end
InRange_inclusive(D, ms) == ms <= D * 1000

\* range(0, self.duration * 1000, dt_ms) still has the value ms
InRange(D, ms) == ms < D * 1000

\* ------------------------------------------------------------------------
\* state_to_can_frames and the period multiplexing of generate_can_data
\* ------------------------------------------------------------------------
Frame(ts, arb_id, data) ==
  [ts |-> ts, channel |-> "can0", arb_id |-> arb_id, dlc |-> 8, data |-> data]

\* the frames of the four payloads, or raised when an encoder raised
FramesOfPayloads(timestamp, e0, e1, e2, e3) ==
  IF e0.raised \/ e1.raised \/ e2.raised \/ e3.raised
  THEN [raised |-> TRUE, frames |-> <<>>]
  ELSE [raised |-> FALSE, frames |->
          <<Frame(timestamp, 256, e0.data), Frame(timestamp, 257, e1.data),
            Frame(timestamp, 258, e2.data), Frame(timestamp, 259, e3.data)>>]

\* the four frames of a sample, or raised when an encoder raises
state_to_can_frames(timestamp, sample) ==
  FramesOfPayloads(timestamp,
    encode_vehicle_speed(sample.speed_kmh),
    encode_engine_data(sample.rpm, sample.throttle_pct),
    encode_brake_data(sample.brake_pressure, sample.brake_active),
    encode_steering_data(sample.steering_angle))

\* timedelta.total_seconds() of a difference of ms milliseconds:
\* microseconds / 10**6
total_seconds(ms) == FDiv(FromInt(ms * 1000), FromInt(1000000))

\* ts_ms = int((state["timestamp"] - start_time).total_seconds() * 1000)
ts_ms_of(timestamp, start) ==
  FTrunc(FMul(total_seconds(timestamp - start), Fl(1000)))

\* a guard that ignores the period of the message
ShouldSend_any_tick(ts_ms, last, period_ms) == ts_ms - last >= dt_ms

\* line 492
ShouldSend(ts_ms, last, period_ms) == ts_ms - last >= period_ms

\* the inner loop over the frames of one sample: acc is
\* [can_frames |-> ..., last_sent |-> ...]
RECURSIVE Multiplex(_, _, _, _)
Multiplex(frames, i, ts_ms, acc) ==
  IF i > Len(frames) THEN acc
  ELSE LET frame == frames[i]
           arb_id == frame.arb_id
           period_ms == CAN_MESSAGES[arb_id].period_ms
       IN  IF ShouldSend(ts_ms, acc.last_sent[arb_id], period_ms)
           THEN Multiplex(frames, i + 1, ts_ms,
                  [can_frames |-> Append(acc.can_frames, frame),
                   last_sent |-> [acc.last_sent EXCEPT ![arb_id] = ts_ms]])
           ELSE Multiplex(frames, i + 1, ts_ms, acc)

\* ------------------------------------------------------------------------
\* The quality evaluator: get_quality and _fetch_quality_from_dlt of the
\* backend router.  Rates are floats; a value rounded with round(x, 4) is
\* held as the integer number of its ten-thousandths.  Times are in
\* minutes.
\* ------------------------------------------------------------------------
CAN_MESSAGE_NAMES ==
  (256 :> "VehicleSpeed") @@ (257 :> "EngineData") @@
  (258 :> "BrakeData") @@ (259 :> "SteeringData")

CAN_PERIODS == (256 :> 20) @@ (257 :> 10) @@ (258 :> 20) @@ (259 :> 50)

\* the window the counts refer to, in ms
WindowMs == 60000

\* the ten-thousandths nearest to the quotient whose integer part is q,
\* whose next binary place is half and whose further places are rest
Round4Up(neg, n, half, rest) ==
  IF half /\ (rest \/ n % 2 = 1)
  THEN (IF neg THEN -(n + 1) ELSE n + 1)
  ELSE (IF neg THEN -n ELSE n)
Round4Digits(neg, q, half, rest) == Round4Up(neg, q[1] + q[2] * Base, half, rest)
\* w / 2^sh rounded to an integer, ties to even
Round4Shift(neg, w, sh) ==
  Round4Digits(neg, ShrW(w, sh, 2), BitW(w, sh - 1) = 1, LowBitsSet(w, sh - 1))
\* round(x, 4) of a float |x| < 2^14, in units of 1/10000: the multiple
\* nearest to the exact value of x, ties to even
Round4(x) ==
  IF IsZero(x) THEN 0 ELSE Round4Shift(x.neg, MulDigit(x.m, 10000), -x.e)

\* --- rows of silver_can_quality ------------------------------------------
\* expected = window_ms / period_ms, floor
window_expected(period_ms) == WindowMs \div period_ms

\* a rate that is not cut off at 0
missing_rate_unclamped(expected, observed) ==
  IF expected = 0 THEN FZero
  ELSE FDiv(FromInt(expected - observed), FromInt(expected))

\* missing_rate = max(0, (expected - observed) / expected), 0 if expected is 0
missing_rate_of(expected, observed) ==
  IF expected = 0 THEN FZero
  ELSE FMax(FZero, FDiv(FromInt(expected - observed), FromInt(expected)))

\* a row of silver_can_quality for one message and the one-minute window
\* ending at window_end: the columns the evaluator selects, each a value
\* of its own
QualityRow(window_end, arb_id, observed, expected, rate) ==
  [arb_id |-> arb_id, message_name |-> CAN_MESSAGE_NAMES[arb_id],
   channel |-> "can0", window_start |-> window_end - 1,
   window_end |-> window_end, message_count |-> observed,
   expected_count |-> expected, missing_rate |-> rate,
   expected_period_ms |-> CAN_PERIODS[arb_id]]

\* --- _fetch_quality_from_dlt ------------------------------------------------
\* WHERE window_end >= current_timestamp() - INTERVAL 5 MINUTES
RecentRows(table, now) == {row \in table : row.window_end >= now - 5}

\* ORDER BY window_end DESC, arb_id
RowBefore(x, y) ==
  \/ x.window_end > y.window_end
  \/ x.window_end = y.window_end /\ x.arb_id < y.arb_id

RECURSIVE OrderRows(_)
OrderRest(S, first) == <<first>> \o OrderRows(S \ {first})
OrderRows(S) ==
  IF S = {} THEN <<>>
  ELSE OrderRest(S, CHOOSE x \in S : \A y \in S \ {x} : RowBefore(x, y))

\* missing_rate=round(missing_rate, 4)
CANQualityMetric(arb_id, name, channel, count, expected, rate, period_ms) ==
  [arb_id |-> arb_id, message_name |-> name, channel |-> channel,
   message_count |-> count, expected_count |-> expected,
   missing_rate |-> Round4(rate), period_ms |-> period_ms]

\* missing_rate = float(row.get("missing_rate") or 0): the column as it is
RowMetric(row) ==
  CANQualityMetric(row.arb_id, row.message_name, row.channel,
                   row.message_count, row.expected_count, row.missing_rate,
                   row.expected_period_ms)

RECURSIVE TotalHealth(_, _)
\* total_health after the k-th metric: 0.0, then += (1 - missing_rate),
\* over a sequence of unrounded rates
TotalHealth(rates, k) ==
  IF k = 0 THEN FZero
  ELSE FAdd(TotalHealth(rates, k - 1), FSub(Fl(1), rates[k]))

\* round(total_health / len(metrics) if metrics else 1.0, 4)
overall_health_of(rates) ==
  IF rates = <<>> THEN 10000
  ELSE Round4(FDiv(TotalHealth(rates, Len(rates)), Fl(Len(rates))))

CANQualityOut(window_start, window_end, metrics, overall_health) ==
  [window_start |-> window_start, window_end |-> window_end,
   metrics |-> metrics, overall_health |-> overall_health]

NoneQuality == [none |-> TRUE]

RECURSIVE RowMetrics(_, _)
RowMetrics(rows, k) ==
  IF k = 0 THEN <<>> ELSE Append(RowMetrics(rows, k - 1), RowMetric(rows[k]))
RECURSIVE RowRates(_, _)
RowRates(rows, k) ==
  IF k = 0 THEN <<>> ELSE Append(RowRates(rows, k - 1), rows[k].missing_rate)

QualityOfRows(rows) ==
  CANQualityOut(rows[1].window_start, rows[1].window_end,
                RowMetrics(rows, Len(rows)),
                overall_health_of(RowRates(rows, Len(rows))))

FetchedRows(rows, raises) ==
  IF raises \/ rows = <<>> THEN NoneQuality ELSE QualityOfRows(rows)

\* returns NoneQuality for None
fetch_quality_from_dlt(table, now, raises) ==
  FetchedRows(OrderRows(RecentRows(table, now)), raises)

\* --- get_quality ------------------------------------------------------------
MessageIds == <<256, 257, 258, 259>>

\* expected_count = int(60000 / period_ms)
expected_count_of(period_ms) == FTrunc(FDiv(FromInt(WindowMs), Fl(period_ms)))

\* the generator after the draw of the k-th message
RECURSIVE RngAt(_, _)
RngAt(r, k) == IF k = 0 THEN r ELSE NextRng(RngAt(r, k - 1))

\* the float literal 0.05
MockRateLimit == Dec(5, 100)

\* missing_rate = random.uniform(0, 0.05) of the k-th message, a float
MockRate(r, k) == uniform(RngAt(r, k), Fl(0), MockRateLimit)

\* actual_count = int(expected_count * (1 - missing_rate))
MockCount(expected, rate) == FTrunc(FMul(Fl(expected), FSub(Fl(1), rate)))

MockMetricOf(arb_id, expected, rate) ==
  CANQualityMetric(arb_id, CAN_MESSAGE_NAMES[arb_id], "can0",
                   MockCount(expected, rate), expected, rate,
                   CAN_PERIODS[arb_id])

MockMetric(r, k) ==
  MockMetricOf(MessageIds[k], expected_count_of(CAN_PERIODS[MessageIds[k]]),
               MockRate(r, k))

RECURSIVE MockRates(_, _)
\* the rates drawn for the first k messages
MockRates(r, k) ==
  IF k = 0 THEN <<>> ELSE Append(MockRates(r, k - 1), MockRate(r, k))

\* round(total_health / len(metrics), 4)
mock_health(r) == overall_health_of(MockRates(r, Len(MessageIds)))

mock_quality(now, r) ==
  CANQualityOut(now - 1, now,
    <<MockMetric(r, 1), MockMetric(r, 2), MockMetric(r, 3), MockMetric(r, 4)>>,
    mock_health(r))

\* the path get_quality takes for an input
FromTable(in) ==
  in.warehouse_id /\
  fetch_quality_from_dlt(in.table, in.now, in.raises) # NoneQuality

\* if quality: return quality; otherwise the mock data
QualityOr(quality, in) ==
  IF quality # NoneQuality THEN quality ELSE mock_quality(in.now, in.rng)

get_quality(in) ==
  QualityOr(IF in.warehouse_id
            THEN fetch_quality_from_dlt(in.table, in.now, in.raises)
            ELSE NoneQuality, in)

\* ------------------------------------------------------------------------
\* State
\* ------------------------------------------------------------------------
VARIABLES
  pc,                     \* position in generate_can_data: "timeline",
                          \* "frames", "done", "raised" ("off": not running)
  duration,               \* duration_seconds
  seed,                   \* seed given to the random source before the run
  rng,                    \* state of the random source
  start_time,             \* datetime.now() of the run, in ms
  phases,                 \* scenario.phases
  event_schedule,         \* the dict event_schedule of generate_timeline
  state,                  \* scenario.state (VehicleState)
  events,                 \* scenario.events (the event log)
  ms,                     \* loop variable of generate_timeline
  active_event_duration,  \* recovery countdown
  timeline,               \* the timeline being built / returned
  idx,                    \* position of generate_can_data in the timeline
  last_sent,              \* last_sent[arb_id]
  can_frames,             \* frames emitted so far
  run_no,                 \* 1 for the first run, 2 for the repeated run
  prev_frames,            \* frame stream the first run returned
  reseeded,               \* the caller seeded the random source again
                          \* right before the repeated run
  cpc,                    \* codec calls: "idle", "encoded", "decoded" ("off")
  enc_in,                 \* arguments of the last encoder call
  enc_out,                \* its result
  dec_in,                 \* arguments of the last decode_can_frame call
  dec_out,                \* its result
  qpc,                    \* get_quality: "idle", "returned" ("off")
  q_in,                   \* what the request finds: configuration, table,
                          \* clock and random source
  q_out                   \* the CANQualityOut returned

runvars == <<pc, duration, seed, rng, start_time, phases, event_schedule,
             state, events, ms, active_event_duration, timeline, idx,
             last_sent, can_frames, run_no, prev_frames, reseeded>>
codecvars == <<cpc, enc_in, enc_out, dec_in, dec_out>>
qualvars == <<qpc, q_in, q_out>>
vars == <<runvars, codecvars, qualvars>>

Durations == 1..MaxDuration
Seeds == 0..MaxSeed
NowValues == {1000 * k : k \in 0..MaxNow}

NoEnc == [arb_id |-> 0, a |-> 0, b |-> 0, active |-> FALSE]
NoDec == [arb_id |-> 0, data |-> [none |-> TRUE, bytes |-> <<>>],
          dbc_readable |-> TRUE]

NoQualityIn ==
  [warehouse_id |-> FALSE, raises |-> FALSE, table |-> {}, now |-> 0,
   rng |-> Seeded(0)]

QualityOff == qpc = "off" /\ q_in = NoQualityIn /\ q_out = NoneQuality

CodecOff ==
  /\ cpc = "off" /\ enc_in = NoEnc /\ enc_out = Packed(<<>>)
  /\ dec_in = NoDec /\ dec_out = EmptyResult

\* the state of a run right after RealisticDrivingScenario(duration) and
\* start_time = datetime.now(), generate_timeline having built its event
\* schedule (lines 293-303) and standing before the first tick
RunStart(D, sd, now, n, prev) ==
  /\ pc = "timeline" /\ duration = D /\ seed = sd /\ rng = Seeded(sd)
  /\ start_time = now
  /\ phases = create_phases(D)
  /\ event_schedule = build_schedule(create_phases(D), scale_of(D))
  /\ state = VehicleState /\ events = <<>>
  /\ ms = 0 /\ active_event_duration = 0 /\ timeline = <<>>
  /\ idx = 1 /\ last_sent = [id \in DOMAIN CAN_MESSAGES |-> 0]
  /\ can_frames = <<>> /\ run_no = n /\ prev_frames = prev
  /\ reseeded = FALSE

Init ==
  /\ \E D \in Durations, sd \in Seeds, now \in NowValues :
        RunStart(D, sd, now, 1, <<>>)
  /\ CodecOff
  /\ QualityOff

\* ------------------------------------------------------------------------
\* generate_timeline: one iteration of the loop, or the return
\* ------------------------------------------------------------------------
generate_timeline ==
  /\ pc = "timeline"
  /\ IF InRange(duration, ms)
     THEN \E due \in {EventDue(event_schedule, ms, active_event_duration)} :
          \E s1 \in {IF due THEN apply_event(state, event_schedule[ms])
                     ELSE state} :
          \E r1 \in {IF due THEN NextRngInt(rng, 2000, 4000) ELSE rng} :
          \E a1 \in {IF due THEN randint(r1, 2000, 4000)
                     ELSE active_event_duration} :
          \E phase \in {phases[get_current_phase(phases, Seconds(ms))]} :
          \E p \in {update_physics(s1, r1, Seconds(dt_ms),
                                   phase.target_speed)} :
          \E s2 \in {Recover(p.st, a1)} :
             /\ events' = IF due
                          THEN Append(events,
                                 EventRecord(s1, event_schedule[ms],
                                             start_time + ms))
                          ELSE events
             /\ rng' = p.rng
             /\ active_event_duration' = Countdown(a1)
             /\ state' = s2
             /\ timeline' = Append(timeline,
                                   TimelineSample(start_time + ms, s2))
             /\ ms' = ms + dt_ms
             /\ pc' = pc
     ELSE /\ pc' = "frames"
          /\ UNCHANGED <<events, rng, active_event_duration, state, timeline, ms>>
  /\ UNCHANGED <<duration, seed, start_time, phases, event_schedule, idx,
                 last_sent, can_frames, run_no, prev_frames, reseeded>>
  /\ UNCHANGED <<codecvars, qualvars>>

\* ------------------------------------------------------------------------
\* generate_can_data: one iteration of the loop over the timeline, or the
\* return of (df, scenario.events)
\* ------------------------------------------------------------------------
generate_can_data ==
  /\ pc = "frames"
  /\ IF idx <= Len(timeline)
     THEN \E sample \in {timeline[idx]} :
          \E f \in {state_to_can_frames(sample.timestamp, sample)} :
              IF f.raised
              THEN /\ pc' = "raised"
                   /\ UNCHANGED <<idx, last_sent, can_frames>>
              ELSE \E acc \in {Multiplex(f.frames, 1,
                                  ts_ms_of(sample.timestamp, start_time),
                                  [can_frames |-> can_frames,
                                   last_sent |-> last_sent])} :
                      /\ can_frames' = acc.can_frames
                      /\ last_sent' = acc.last_sent
                      /\ idx' = idx + 1
                      /\ pc' = pc
     ELSE /\ pc' = "done"
          /\ UNCHANGED <<idx, last_sent, can_frames>>
  /\ UNCHANGED <<duration, seed, rng, start_time, phases, event_schedule,
                 state, events, ms, active_event_duration, timeline, run_no,
                 prev_frames, reseeded>>
  /\ UNCHANGED <<codecvars, qualvars>>

\* A second call of generate_can_data with the same duration.  Nothing in
\* the program calls random.seed, so the random source goes on from where
\* the first call left it, unless the caller seeds it again with the same
\* seed between the two calls (again).  datetime.now() is read anew.
Rerun ==
  /\ pc = "done" /\ run_no = 1
  /\ \E now \in NowValues, again \in BOOLEAN :
        /\ reseeded' = again
        /\ rng' = IF again THEN Seeded(seed) ELSE rng
        /\ pc' = "timeline" /\ start_time' = now
        /\ state' = VehicleState /\ events' = <<>> /\ ms' = 0
        /\ active_event_duration' = 0 /\ timeline' = <<>> /\ idx' = 1
        /\ last_sent' = [id \in DOMAIN CAN_MESSAGES |-> 0]
        /\ can_frames' = <<>> /\ run_no' = 2 /\ prev_frames' = can_frames
  /\ UNCHANGED <<duration, seed, phases, event_schedule>>
  /\ UNCHANGED <<codecvars, qualvars>>

Next == generate_timeline \/ generate_can_data \/ Rerun

Spec == Init /\ [][Next]_vars

\* ------------------------------------------------------------------------
\* Codec calls: the encoders and decode_can_frame applied to bounded inputs
\* ------------------------------------------------------------------------
RunOff ==
  /\ pc = "off" /\ duration = 0 /\ seed = 0 /\ rng = Seeded(0) /\ start_time = 0
  /\ phases = <<>> /\ event_schedule = <<>>
  /\ state = VehicleState /\ events = <<>> /\ ms = 0
  /\ active_event_duration = 0 /\ timeline = <<>> /\ idx = 1
  /\ last_sent = [id \in DOMAIN CAN_MESSAGES |-> 0] /\ can_frames = <<>>
  /\ run_no = 1 /\ prev_frames = <<>> /\ reseeded = FALSE

\* inputs k * step within [lo, hi] (all in units; 100 units = 1/128)
Grid(lo, hi, step) == {lo + k * step : k \in 0..((hi - lo) \div step)}
\* inputs with two decimals, c / 100 for c = lo, lo + step, ... up to hi
\* (in units: 1/100 = 128 units); no such value but the multiples of 1/4
\* is a float exactly
Cents(lo, hi, step) == {128 * c : c \in Grid(lo, hi, step)}

SpeedInputs == Grid(0, 8388480, 100 * (4 * GridMul + 1))
RpmInputs == Grid(0, 209712000, 100 * (1600 * GridMul + 1))
ThrottleInputs == Grid(0, 1305600, 100 * (16 * GridMul + 1))
PressureInputs == Grid(0, 1305600, 100 * (16 * GridMul + 1))
AngleInputs == Grid(-13824000, 13824000, 100 * (4 * GridMul + 1))

SpeedCents == Cents(29, 65535, 251 * GridMul + 1)
RpmCents == Cents(29, 1638375, 6521 * GridMul + 1)
ThrottleCents == Cents(7, 10200, 41 * GridMul + 1)
PressureCents == Cents(7, 10200, 41 * GridMul + 1)
AngleCents == Cents(-108010, 108000, 883 * GridMul + 1)

SpeedCalls ==
  {[arb_id |-> 256, a |-> x, b |-> 0, active |-> FALSE] :
     x \in SpeedInputs \cup SpeedCents}
EngineCalls ==
  {[arb_id |-> 257, a |-> x, b |-> y, active |-> FALSE] :
     x \in RpmInputs, y \in ThrottleInputs}
EngineCentCalls ==
  {[arb_id |-> 257, a |-> x, b |-> y, active |-> FALSE] :
     x \in RpmCents, y \in ThrottleCents}
BrakeCalls ==
  {[arb_id |-> 258, a |-> x, b |-> 0, active |-> f] :
     x \in PressureInputs \cup PressureCents, f \in BOOLEAN}
SteeringCalls ==
  {[arb_id |-> 259, a |-> x, b |-> 0, active |-> FALSE] :
     x \in AngleInputs \cup AngleCents}

\* the encoder of message arb_id applied to the arguments
EncodeCall(in) ==
  CASE in.arb_id = 256 -> encode_vehicle_speed(FromUnits(in.a))
    [] in.arb_id = 257 -> encode_engine_data(FromUnits(in.a), FromUnits(in.b))
    [] in.arb_id = 258 -> encode_brake_data(FromUnits(in.a), in.active)
    [] in.arb_id = 259 -> encode_steering_data(FromUnits(in.a))

\* payloads offered to the decoder: None, and the prefixes of two patterns
\* (empty, truncated, full and one byte too long)
PayloadPatterns ==
  {[i \in 1..MaxPayloadLen |-> (39 * i + 16 * (i - 1)) % 256],
   [i \in 1..MaxPayloadLen |-> 255]}
DecPayloads ==
  {[none |-> TRUE, bytes |-> <<>>]} \cup
  {[none |-> FALSE, bytes |-> SubSeq(pat, 1, n)] :
     pat \in PayloadPatterns, n \in 0..MaxPayloadLen}
DecIds == {0, 256, 257, 258, 259, 260}

DecInputs ==
  {[arb_id |-> id, data |-> data, dbc_readable |-> readable] :
     id \in DecIds, data \in DecPayloads, readable \in BOOLEAN}

\* the arguments of the call to come are drawn here: a decoder call on an
\* arbitrary frame (enc_in = NoEnc) or an encoder call (dec_in = NoDec)
InitCodec ==
  /\ RunOff
  /\ QualityOff
  /\ cpc = "idle" /\ enc_out = Packed(<<>>) /\ dec_out = EmptyResult
  /\ \/ enc_in = NoEnc /\ dec_in \in DecInputs
     \/ /\ \/ enc_in \in SpeedCalls
           \/ enc_in \in EngineCalls
           \/ enc_in \in EngineCentCalls
           \/ enc_in \in BrakeCalls
           \/ enc_in \in SteeringCalls
        /\ dec_in = NoDec

Encode ==
  /\ cpc = "idle" /\ enc_in # NoEnc
  /\ enc_out' = EncodeCall(enc_in)
  /\ cpc' = "encoded"
  /\ UNCHANGED <<enc_in, dec_in, dec_out>>
  /\ UNCHANGED <<runvars, qualvars>>

\* the frame the encoder produced, as the decoder's arguments
EncodedFrame(arb_id, data) ==
  [arb_id |-> arb_id, data |-> [none |-> FALSE, bytes |-> data],
   dbc_readable |-> TRUE]

\* the decoder applied to the frame the encoder produced, vehicle.dbc loaded
DecodeEncoded ==
  /\ cpc = "encoded" /\ ~enc_out.raised
  /\ dec_in' = EncodedFrame(enc_in.arb_id, enc_out.data)
  /\ dec_out' = decode_can_frame(enc_in.arb_id,
                                 [none |-> FALSE, bytes |-> enc_out.data], TRUE)
  /\ cpc' = "decoded"
  /\ UNCHANGED <<enc_in, enc_out>>
  /\ UNCHANGED <<runvars, qualvars>>

\* the decoder applied to an arbitrary frame
DecodeFrame ==
  /\ cpc = "idle" /\ enc_in = NoEnc
  /\ dec_out' = decode_can_frame(dec_in.arb_id, dec_in.data, dec_in.dbc_readable)
  /\ cpc' = "decoded"
  /\ UNCHANGED <<enc_in, enc_out, dec_in>>
  /\ UNCHANGED <<runvars, qualvars>>

NextCodec == Encode \/ DecodeEncoded \/ DecodeFrame

SpecCodec == InitCodec /\ [][NextCodec]_vars

\* ------------------------------------------------------------------------
\* The event schedule of a nominal 600 s run: the loop of generate_timeline
\* restricted to ms, the recovery countdown and the (timestamp, type) of
\* the event log.  The vehicle state never enters the condition of line
\* 311 nor the countdown, so it is left out here, and the recovery length
\* is any value randint(2000, 4000) can return.  On a tick without a
\* scheduled event the loop only counts down, so one step runs the loop
\* from a scheduled tick up to the next one.
\* ------------------------------------------------------------------------
NominalDuration == 600

\* every value randint(2000, 4000) returns
RecoveryLengths == 2000..4000

LogKey(rec) == [timestamp |-> rec.timestamp, type |-> rec.type]

\* the scheduled ticks the loop reaches after ms
LaterTicks(schedule, D, ms_) ==
  {k \in DOMAIN schedule : k > ms_ /\ k % dt_ms = 0 /\ InRange(D, k)}
\* the first of them, or the end of the range
NextScheduled(later, D) ==
  IF later = {} THEN D * 1000 ELSE CHOOSE k \in later : \A j \in later : k <= j

\* the countdown c after n further ticks without an applied event: each
\* tick takes Countdown off a positive countdown, and lines 320-325 leave a
\* countdown that is not positive as it is
TicksLeft(c, step) == (c + step - 1) \div step
QuietStep(c, n, step) == c - Min(n, TicksLeft(c, step)) * step
QuietTicks(c, n) ==
  IF n <= 0 \/ c <= 0 THEN c ELSE QuietStep(c, n, c - Countdown(c))

InitSchedule ==
  /\ \E now \in NowValues : RunStart(NominalDuration, 0, now, 1, <<>>)
  /\ CodecOff
  /\ QualityOff

generate_timeline_events ==
  /\ pc = "timeline"
  /\ IF InRange(duration, ms)
     THEN \E due \in {EventDue(event_schedule, ms, active_event_duration)} :
          \E next \in {NextScheduled(LaterTicks(event_schedule, duration, ms),
                                     duration)} :
          \E r \in (IF due THEN RecoveryLengths
                    ELSE {active_event_duration}) :
             /\ events' = IF due
                          THEN Append(events,
                                 LogKey(EventRecord(state, event_schedule[ms],
                                                    start_time + ms)))
                          ELSE events
             /\ active_event_duration' =
                  QuietTicks(Countdown(r), (next - ms) \div dt_ms - 1)
             /\ ms' = next
             /\ pc' = pc
     ELSE /\ pc' = "frames"
          /\ UNCHANGED <<events, active_event_duration, ms>>
  /\ UNCHANGED <<duration, seed, rng, start_time, phases, event_schedule,
                 state, timeline, idx, last_sent, can_frames, run_no,
                 prev_frames, reseeded>>
  /\ UNCHANGED <<codecvars, qualvars>>

SpecSchedule == InitSchedule /\ [][generate_timeline_events]_vars

\* The same loop for runs of a few seconds, where the scaled events lie
\* closer together than a recovery lasts; the runs start at one clock value.
ScaledDurations == {4, 5, 6, 7, 8}

InitScaledSchedule ==
  /\ \E D \in ScaledDurations : RunStart(D, 0, 1000, 1, <<>>)
  /\ CodecOff
  /\ QualityOff

SpecScaledSchedule == InitScaledSchedule /\ [][generate_timeline_events]_vars

\* ------------------------------------------------------------------------
\* Runs for any integer duration_sec.  __init__ stores the argument as it
\* is, so a duration below 1 reaches generate_timeline like any other.
\* ------------------------------------------------------------------------
AnyDurations == (0 - MaxInvalid)..MaxDuration

InitAnyDuration ==
  /\ \E D \in AnyDurations, sd \in Seeds, now \in NowValues :
        RunStart(D, sd, now, 1, <<>>)
  /\ CodecOff
  /\ QualityOff

SpecAnyDuration == InitAnyDuration /\ [][Next]_vars

\* ------------------------------------------------------------------------
\* Longer runs, <<duration, seed>>.  Between them they apply every braking
\* event, hard_acceleration and the steering events to both sides, let
\* recoveries expire and drop events during a recovery, reach the speed
\* limit of 140 km/h, and have the cruise controller brake the vehicle down
\* to the target of a phase.  Each run starts at clock value 0.
\* ------------------------------------------------------------------------
LongRuns == {<<6, 7>>, <<12, 0>>, <<15, 0>>, <<18, 5>>, <<21, 0>>, <<22, 5>>}

InitLongRun ==
  /\ \E run \in LongRuns : RunStart(run[1], run[2], 0, 1, <<>>)
  /\ CodecOff
  /\ QualityOff

NextLongRun == generate_timeline \/ generate_can_data

SpecLongRun == InitLongRun /\ [][NextLongRun]_vars

\* ------------------------------------------------------------------------
\* Requests to get_quality.  The table holds, for each one-minute window
\* ending WindowAges minutes before the request and each message of
\* TableIds, either no row or a row whose observed count is 0, one short
\* of the expected count, the expected count, or one above it.  The
\* fallback draws four rates; the random source is never seeded by the
\* program, and the generator is equidistributed over any eight
\* consecutive outputs, so each draw can be the least and the largest
\* value of random(), the values next to them, one half, or a value drawn
\* after random.seed(0).
\* ------------------------------------------------------------------------
WindowAges == {0, 1, 6}
TableIds == {256, 259}
CountCases == {"absent", "none", "short", "full", "over"}

Observed(case, expected) ==
  CASE case = "none" -> 0
    [] case = "short" -> expected - 1
    [] case = "full" -> expected
    [] case = "over" -> expected + 1

\* the counts and the rate of the row the pipeline writes for a message
\* seen observed times: expected_count, message_count and missing_rate
Written(expected, observed) ==
  [expected |-> expected, observed |-> observed,
   rate |-> missing_rate_of(expected, observed)]
\* the row contents for each case of a message
WrittenCases(expected) ==
  [none |-> Written(expected, Observed("none", expected)),
   short |-> Written(expected, Observed("short", expected)),
   full |-> Written(expected, Observed("full", expected)),
   over |-> Written(expected, Observed("over", expected))]
WrittenCounts ==
  (256 :> WrittenCases(window_expected(CAN_PERIODS[256]))) @@
  (259 :> WrittenCases(window_expected(CAN_PERIODS[259])))

WrittenRow(window_end, arb_id, c) ==
  QualityRow(window_end, arb_id, c.observed, c.expected, c.rate)

TableOf(f, now) ==
  {WrittenRow(now - k[1], k[2], WrittenCounts[k[2]][f[k]]) :
     k \in {x \in WindowAges \X TableIds : f[x] # "absent"}}

QualityNows == {10 + k : k \in 0..MaxNow}

\* two outputs of the generator (without their five low bits) for one draw
QualityDraws ==
  {<<0, 0>>, <<0, 2>>, <<2 ^ 26, 0>>, <<2 ^ 27 - 1, 2 ^ 27 - 1>>,
   <<MTOutputs[0][1], MTOutputs[0][2]>>}

\* requests answered from the table
TableInputs ==
  {[warehouse_id |-> TRUE, raises |-> FALSE, table |-> TableOf(f, now),
    now |-> now, rng |-> Seeded(0)] :
     f \in [WindowAges \X TableIds -> CountCases], now \in QualityNows}

\* requests without a warehouse, or whose query raises
FallbackInputs ==
  {[warehouse_id |-> w, raises |-> w, table |-> {}, now |-> now,
    rng |-> Given(d1 \o d2 \o d3 \o d4)] :
     w \in BOOLEAN, now \in QualityNows,
     d1 \in QualityDraws, d2 \in QualityDraws, d3 \in QualityDraws,
     d4 \in QualityDraws}

InitQuality ==
  /\ RunOff
  /\ CodecOff
  /\ qpc = "idle" /\ q_out = NoneQuality
  /\ \/ q_in \in TableInputs
     \/ q_in \in FallbackInputs

GetQuality ==
  /\ qpc = "idle"
  /\ q_out' = get_quality(q_in)
  /\ qpc' = "returned"
  /\ UNCHANGED q_in
  /\ UNCHANGED <<runvars, codecvars>>

SpecQuality == InitQuality /\ [][GetQuality]_vars

\* ------------------------------------------------------------------------
\* The frame times of a one-minute run: the loop of generate_can_data
\* restricted to the tick, last_sent and the (timestamp, identifier) of the
\* frames emitted.  The payloads do not enter the condition of line 492,
\* so the timeline is not generated here.
\* ------------------------------------------------------------------------
WindowDurations == {60}

FrameKey(timestamp, arb_id) == [ts |-> timestamp, arb_id |-> arb_id]

FrameKeys(timestamp) ==
  <<FrameKey(timestamp, 256), FrameKey(timestamp, 257),
    FrameKey(timestamp, 258), FrameKey(timestamp, 259)>>

InitFrameTimes ==
  /\ \E D \in WindowDurations, now \in NowValues :
        /\ pc = "frames" /\ duration = D /\ seed = 0 /\ rng = Seeded(0)
        /\ start_time = now /\ phases = <<>> /\ event_schedule = <<>>
        /\ state = VehicleState /\ events = <<>>
        /\ ms = 0 /\ active_event_duration = 0 /\ timeline = <<>>
        /\ idx = 1 /\ last_sent = [id \in DOMAIN CAN_MESSAGES |-> 0]
        /\ can_frames = <<>> /\ run_no = 1 /\ prev_frames = <<>>
        /\ reseeded = FALSE
  /\ CodecOff
  /\ QualityOff

generate_can_data_times ==
  /\ pc = "frames"
  /\ IF InRange(duration, ms)
     THEN \E acc \in {Multiplex(FrameKeys(start_time + ms), 1,
                                ts_ms_of(start_time + ms, start_time),
                                [can_frames |-> can_frames,
                                 last_sent |-> last_sent])} :
              /\ can_frames' = acc.can_frames
              /\ last_sent' = acc.last_sent
              /\ ms' = ms + dt_ms
              /\ pc' = pc
     ELSE /\ pc' = "done"
          /\ UNCHANGED <<can_frames, last_sent, ms>>
  /\ UNCHANGED <<duration, seed, rng, start_time, phases, event_schedule,
                 state, events, active_event_duration, timeline, idx, run_no,
                 prev_frames, reseeded>>
  /\ UNCHANGED <<codecvars, qualvars>>

SpecFrameTimes == InitFrameTimes /\ [][generate_can_data_times]_vars


\* ------------------------------------------------------------------------
\* Properties
\* ------------------------------------------------------------------------
Dbc(id, name) == Signal(DBC_CONTENT[id], name)

\* an encoder call has been made and returned a payload
Encoded == cpc \in {"encoded", "decoded"} /\ enc_in # NoEnc /\ ~enc_out.raised
\* ... and the payload has been decoded with vehicle.dbc
RoundTripped == cpc = "decoded" /\ enc_in # NoEnc

\* |decoded - x| <= scale / 2
Within(opt, x, scale) == opt.set /\ 2 * Abs(opt.v - x) <= scale

\* C1: for every signal and every x in its declared range, decoding with
\* the dictionary the payload the encoder produced for x gives a value
\* within scale/2 of x.
C1_RoundTrip ==
  RoundTripped =>
    CASE enc_in.arb_id = 256 ->
           Within(dec_out.speed_kmh, enc_in.a, Dbc(256, "speed_kmh").scale)
      [] enc_in.arb_id = 257 ->
           /\ Within(dec_out.rpm, enc_in.a, Dbc(257, "rpm").scale)
           /\ Within(dec_out.throttle_pct, enc_in.b, Dbc(257, "throttle").scale)
      [] enc_in.arb_id = 258 ->
           /\ Within(dec_out.brake_pressure, enc_in.a, Dbc(258, "pressure").scale)
           /\ dec_out.brake_active = Some(enc_in.active)
      [] enc_in.arb_id = 259 ->
           Within(dec_out.steering_angle, enc_in.a, Dbc(259, "angle").scale)

\* the unsigned integer found in bytes 0-1 high byte first, and in one byte
ReadH(data, i) == data[i] * 256 + data[i + 1]
ReadB(data, i) == data[i]

\* C2: the dictionary declares for every signal the bytes, bit length and
\* byte order the encoder packs it with: the raw integer read from the
\* encoder's payload as the dictionary declares the signal is the raw
\* integer the encoder wrote (16-bit signals included).
C2_DictionaryMatchesEncoder ==
  Encoded =>
    CASE enc_in.arb_id = 256 ->
           ExtractRaw(Dbc(256, "speed_kmh"), enc_out.data)
             = speed_raw_of(FromUnits(enc_in.a))
      [] enc_in.arb_id = 257 ->
           /\ ExtractRaw(Dbc(257, "rpm"), enc_out.data)
                = rpm_raw_of(FromUnits(enc_in.a))
           /\ ExtractRaw(Dbc(257, "throttle"), enc_out.data)
                = throttle_raw_of(FromUnits(enc_in.b))
      [] enc_in.arb_id = 258 ->
           /\ ExtractRaw(Dbc(258, "pressure"), enc_out.data)
                = pressure_raw_of(FromUnits(enc_in.a))
           /\ ExtractRaw(Dbc(258, "active"), enc_out.data)
                = active_raw_of(enc_in.active)
      [] enc_in.arb_id = 259 ->
           ExtractRaw(Dbc(259, "angle"), enc_out.data)
             = angle_raw_of(FromUnits(enc_in.a))

\* raw is a nearest integer of (x - offset) / scale
Nearest(raw, x, scale, offset) == 2 * Abs(raw * scale - (x - offset)) <= scale

\* C3: the raw integer written for speed (0.01), rpm (0.25), throttle
\* (0.4), brake pressure (0.4) and steering angle (0.1, offset -1080) is
\* round((x - offset) / scale), the nearest integer.
C3_RawIsRounded ==
  Encoded =>
    CASE enc_in.arb_id = 256 -> Nearest(ReadH(enc_out.data, 1), enc_in.a, 128, 0)
      [] enc_in.arb_id = 257 ->
           /\ Nearest(ReadH(enc_out.data, 1), enc_in.a, 3200, 0)
           /\ Nearest(ReadB(enc_out.data, 3), enc_in.b, 5120, 0)
      [] enc_in.arb_id = 258 -> Nearest(ReadB(enc_out.data, 1), enc_in.a, 5120, 0)
      [] enc_in.arb_id = 259 ->
           Nearest(ReadH(enc_out.data, 1), enc_in.a, 1280, -1080 * Unit)

\* the timeline sample a frame was made from
SampleOf(frame) == timeline[((frame.ts - start_time) \div dt_ms) + 1]

AllZero(data, from) == \A k \in from..Len(data) : data[k] = 0

FrameLayoutOK(frame) ==
  LET sample == SampleOf(frame)
      data == frame.data
  IN  /\ frame.dlc = 8 /\ frame.channel = "can0" /\ Len(data) = 8
      /\ \A k \in 1..8 : data[k] \in 0..255
      /\ CASE frame.arb_id = 256 ->
                /\ ReadH(data, 1) = speed_raw_of(sample.speed_kmh)
                /\ AllZero(data, 3)
           [] frame.arb_id = 257 ->
                /\ ReadH(data, 1) = rpm_raw_of(sample.rpm)
                /\ ReadB(data, 3) = throttle_raw_of(sample.throttle_pct)
                /\ AllZero(data, 4)
           [] frame.arb_id = 258 ->
                /\ ReadB(data, 1) = pressure_raw_of(sample.brake_pressure)
                /\ ReadB(data, 2) = (IF sample.brake_active THEN 1 ELSE 0)
                /\ AllZero(data, 3)
           [] frame.arb_id = 259 ->
                /\ ReadH(data, 1) = angle_raw_of(sample.steering_angle)
                /\ AllZero(data, 3)
           [] OTHER -> FALSE

\* the frames made from the sample the loop has just processed; at most
\* one per message, at the end of the stream
NewFrames ==
  {i \in (Len(can_frames) - 3)..Len(can_frames) :
     /\ i >= 1 /\ idx > 1
     /\ can_frames[i].ts = timeline[idx - 1].timestamp}

\* C4: every emitted frame has dlc 8, channel "can0" and an 8-byte payload
\* with the 16-bit raw values in bytes 0-1 high byte first, the 8-bit values
\* in byte 2 (throttle) or byte 0 (pressure), brake-active as 0/1 in byte 1
\* of BrakeData and zero everywhere else; speed 100.0 gives
\* 27 10 00 00 00 00 00 00.  A frame is compared with its sample in the
\* state that follows its emission, and the whole stream at its return.
C4_FrameLayout ==
  /\ \A i \in NewFrames : FrameLayoutOK(can_frames[i])
  /\ pc = "done" => \A i \in 1..Len(can_frames) : FrameLayoutOK(can_frames[i])
  /\ encode_vehicle_speed(Fl(100)) = Packed(<<39, 16, 0, 0, 0, 0, 0, 0>>)

\* a run returned frames of all four messages, among them a speed frame
\* with both bytes of the raw value non-zero and a brake frame with the
\* active flag set
C4_Witness ==
  /\ pc = "done"
  /\ \A id \in DOMAIN CAN_MESSAGES :
        \E i \in 1..Len(can_frames) : can_frames[i].arb_id = id
  /\ \E i \in 1..Len(can_frames) :
        /\ can_frames[i].arb_id = 256
        /\ can_frames[i].data[1] > 0 /\ can_frames[i].data[2] > 0
  /\ \E i \in 1..Len(can_frames) :
        can_frames[i].arb_id = 258 /\ can_frames[i].data[2] = 1

\* the frames of one message, in emission order
FramesOf(id) ==
  LET IsId(f) == f.arb_id = id
  IN  SelectSeq(can_frames, IsId)

\* C5: any two consecutive emitted frames of a message are at least the
\* message's period apart (20, 10, 20, 50 ms for 0x100..0x103).
C5_PeriodCompliance ==
  \A id \in DOMAIN CAN_MESSAGES :
    LET fs == FramesOf(id)
    IN  \A k \in 1..(Len(fs) - 1) :
          fs[k + 1].ts - fs[k].ts >= CAN_MESSAGES[id].period_ms

\* a returned stream in which every message was sent repeatedly and two
\* consecutive EngineData frames are more than one period apart
C5_Witness ==
  /\ pc = "done"
  /\ \A id \in DOMAIN CAN_MESSAGES : Len(FramesOf(id)) >= 2
  /\ LET fs == FramesOf(257)
     IN  \E k \in 1..(Len(fs) - 1) : fs[k + 1].ts - fs[k].ts > 10

TimelineReturned == pc \in {"frames", "done"}

\* C6: for every duration D >= 1 generate_timeline terminates and returns
\* exactly D*100 samples, the i-th (from 0) stamped start_time + 10*i ms.
\* Termination: while the loop runs, ms is 10 times the number of samples
\* made and below the end of the range, so the loop body runs D*100
\* times and the return follows.
C6_TimelineShape ==
  /\ duration >= 1
  /\ \A i \in 1..Len(timeline) :
        timeline[i].timestamp = start_time + 10 * (i - 1)
  /\ pc = "timeline" =>
        ms = 10 * Len(timeline) /\ ms <= duration * 1000
  /\ TimelineReturned => Len(timeline) = duration * 100

\* a timeline of more than one second has been returned
C6_Witness ==
  pc = "frames" /\ duration >= 2 /\ Len(timeline) = duration * 100

\* C7: two runs with the same duration, each started right after the random
\* source was seeded with the same seed, return identical
\* frame streams (timestamp, channel, identifier, dlc and payload).
C7_Deterministic ==
  (pc = "done" /\ run_no = 2 /\ reseeded) => can_frames = prev_frames

KnownId(id) == id \in DOMAIN DBC_CONTENT
Decoded == cpc = "decoded" /\ enc_in = NoEnc

\* C8: decode_can_frame returns the all-unset result for an identifier
\* that is not in the dictionary, whatever the payload, and for a payload
\* that is None or empty, whatever the identifier.
C8_DecoderRobust ==
  (Decoded /\ (~KnownId(dec_in.arb_id) \/ dec_in.data.none
                 \/ Len(dec_in.data.bytes) = 0))
    => dec_out = EmptyResult

\* both cases have been decoded: an unknown identifier with a full
\* payload, and a known identifier with an empty payload
C8_Witness ==
  /\ Decoded /\ dec_in.dbc_readable /\ dec_out = EmptyResult
  /\ \/ ~KnownId(dec_in.arb_id) /\ Len(dec_in.data.bytes) = 8
     \/ KnownId(dec_in.arb_id) /\ ~dec_in.data.none /\ Len(dec_in.data.bytes) = 0

\* C9: when decoding raises after the identifier was found (a truncated
\* payload of a known message) the result is the all-unset one, message_name
\* included.
C9_FailSoftEmpty ==
  (Decoded /\ dec_in.dbc_readable /\ KnownId(dec_in.arb_id)
     /\ ~EmptyPayload(dec_in.data)
     /\ DecodeRaises(DBC_CONTENT[dec_in.arb_id], dec_in.data.bytes))
    => dec_out = EmptyResult

EmergencyBrakeLogged ==
  \E i \in 1..Len(events) :
     /\ events[i].type = "emergency_brake"
     /\ events[i].timestamp = start_time + 395000

\* C10: with duration 600 s and every recovery length, the event log
\* contains an "emergency_brake" record stamped start_time + 395 s.
C10_EmergencyBrakeAt395 ==
  (duration = 600 /\ (ms > 395000 \/ pc = "frames")) => EmergencyBrakeLogged

\* the 600 s timeline has been generated to its end and the record is there
C10_Witness ==
  duration = 600 /\ pc = "frames" /\ EmergencyBrakeLogged

EvasiveSteeringLogged ==
  \E i \in 1..Len(events) :
     /\ events[i].type = "evasive_steering"
     /\ events[i].timestamp = start_time + 398000
     /\ \E j \in 1..(i - 1) :
           /\ events[j].type = "emergency_brake"
           /\ events[j].timestamp = start_time + 395000

\* C11: with duration 600 s and every recovery length, the event log
\* contains an "evasive_steering" record stamped start_time + 398 s, after
\* the "emergency_brake" record stamped start_time + 395 s.
C11_EvasiveSteeringAt398 ==
  (duration = 600 /\ (ms > 398000 \/ pc = "frames")) => EvasiveSteeringLogged

\* the tick at ms without any event: physics, then the recovery countdown
QuietTick ==
  Recover(update_physics(state, rng, Seconds(dt_ms),
            phases[get_current_phase(phases, Seconds(ms))].target_speed).st,
          active_event_duration)

\* the log has no record stamped at the scheduled tick t
NoRecordAt(log, t) ==
  \A i \in 1..Len(log) : log[i].timestamp # start_time + t

\* C12: one countdown serves all events.  A scheduled event whose tick
\* arrives while the countdown is positive leaves the log alone, leaves the
\* countdown running (it is decremented, not restarted) and leaves the
\* vehicle state to the physics of that tick; a record is only ever appended
\* at the tick it is scheduled for, and a scheduled tick that has passed
\* without a record never gets one at a later tick.
C12_DroppedNotQueued ==
  [][ (pc = "timeline" /\ InRange(duration, ms)) =>
        /\ \A t \in DOMAIN event_schedule :
              (t < ms /\ NoRecordAt(events, t)) => NoRecordAt(events', t)
        /\ (ms \in DOMAIN event_schedule /\ active_event_duration > 0) =>
              /\ events' = events
              /\ active_event_duration' = active_event_duration - dt_ms
              /\ state' = QuietTick
        /\ events' # events =>
              /\ ms \in DOMAIN event_schedule
              /\ active_event_duration <= 0
              /\ Len(events') = Len(events) + 1
              /\ SubSeq(events', 1, Len(events)) = events
              /\ events'[Len(events')].timestamp = start_time + ms
              /\ events'[Len(events')].type = event_schedule[ms].type
    ]_vars

\* the scheduled tick t was reached during a recovery and has no record
Dropped(t) ==
  /\ t % dt_ms = 0 /\ t < ms
  /\ NoRecordAt(events, t)
  /\ \E i \in 1..Len(events) :
        /\ events[i].timestamp < start_time + t
        /\ start_time + t < events[i].timestamp + 2000

\* a run has returned its timeline with an event that was dropped during a
\* recovery: that recovery has expired since, two further events have been
\* applied after its expiry, and the log still has no record of the dropped
\* event
C12_Witness ==
  /\ pc = "frames"
  /\ \E t \in DOMAIN event_schedule :
        /\ Dropped(t)
        /\ \E j \in 1..(Len(events) - 1) :
              events[j].timestamp > start_time + t + 4000

\* the sample at which a recovery ends: brake released, throttle at 30 %
Released(sample) ==
  /\ sample.brake_pressure = Fl(0)
  /\ ~sample.brake_active
  /\ sample.throttle_pct = Fl(30)

\* C13: once the timeline is complete, every applied event has had its
\* countdown reach zero or below, and a sample stamped at or after the event
\* shows the released state.
C13_RecoveryCompletes ==
  (pc = "frames" /\ Len(events) > 0) =>
     /\ active_event_duration <= 0
     /\ \A i \in 1..Len(events) :
          \E k \in 1..Len(timeline) :
             /\ timeline[k].timestamp >= events[i].timestamp
             /\ Released(timeline[k])

\* C14: a duration below 1 (negative, or 0 where every phase window is
\* empty) is rejected at construction: generate_timeline never returns for
\* it, in particular it never returns an empty timeline.
C14_InvalidRejected ==
  duration < 1 => ~TimelineReturned

\* C15: a dictionary that cannot be loaded is fatal: no call of the decoder
\* returns, with an empty result or any other, while the dictionary is
\* unreadable.
C15_LoadFailureFatal ==
  Decoded => dec_in.dbc_readable

QualityReturned == qpc = "returned"

\* C16: in every metric returned, missing_rate is
\* max(0, (expected_count - message_count) / expected_count), 0 when
\* expected_count is 0, to the four decimals the record carries.
C16_MissingRateFormula ==
  QualityReturned =>
    \A k \in 1..Len(q_out.metrics) :
       LET m == q_out.metrics[k]
       IN  m.missing_rate =
             Round4(missing_rate_of(m.expected_count, m.message_count))

AllCountsMet ==
  \A k \in 1..Len(q_out.metrics) :
     q_out.metrics[k].message_count = q_out.metrics[k].expected_count

\* C17: in every result returned, from the table or from the fallback,
\* every metric has 0 <= missing_rate <= 1, and overall_health is exactly
\* 1.0 when message_count = expected_count in every metric.
C17_QualityBounds ==
  QualityReturned =>
    /\ \A k \in 1..Len(q_out.metrics) :
          /\ 0 <= q_out.metrics[k].missing_rate
          /\ q_out.metrics[k].missing_rate <= 10000
    /\ AllCountsMet => q_out.overall_health = 10000

\* a result read from the table with rows of two windows, every count
\* met, and an overall_health of 1.0
C17_TableCase ==
  /\ QualityReturned /\ FromTable(q_in)
  /\ Len(q_out.metrics) >= 3
  /\ AllCountsMet
  /\ q_out.overall_health = 10000

\* a fallback result in which every count is met although a rate above 0
\* was drawn, with an overall_health of 1.0
C17_Witness ==
  /\ QualityReturned /\ ~FromTable(q_in)
  /\ Len(q_out.metrics) = 4
  /\ \E k \in 1..4 : ~IsZero(MockRate(q_in.rng, k))
  /\ AllCountsMet
  /\ q_out.overall_health = 10000

\* the table rows of the window the result reports
ReportedRows ==
  {row \in q_in.table : /\ row.window_start = q_out.window_start
                        /\ row.window_end = q_out.window_end}

\* the unrounded rates of the table rows of the reported window
ReportedRates ==
  LET rows == OrderRows(ReportedRows)
  IN  [k \in 1..Len(rows) |-> rows[k].missing_rate]

\* number of messages of the reported window
ReportedCount ==
  IF FromTable(q_in) THEN Len(ReportedRates) ELSE Len(MessageIds)

\* round(mean of 1 - missing_rate over these messages, 4)
ReportedHealth ==
  IF FromTable(q_in) THEN overall_health_of(ReportedRates)
  ELSE mock_health(q_in.rng)

\* C18: overall_health is the mean of 1 - missing_rate over the messages
\* of the reported window, each counted once (1.0 if there is none), and
\* the result has no metric of any other window.
C18_HealthOfReportedWindow ==
  QualityReturned =>
    /\ \A j, k \in 1..Len(q_out.metrics) :
          j # k => q_out.metrics[j].arb_id # q_out.metrics[k].arb_id
    /\ Len(q_out.metrics) = ReportedCount
    /\ q_out.overall_health = ReportedHealth

SampleInRange(sample) ==
  /\ FLe(Fl(0), sample.speed_kmh) /\ FLe(sample.speed_kmh, Fl(140))
  /\ FLe(Fl(800), sample.rpm) /\ FLe(sample.rpm, Fl(6500))
  /\ FLe(Fl(0), sample.throttle_pct) /\ FLe(sample.throttle_pct, Fl(100))
  /\ FLe(Fl(0), sample.brake_pressure) /\ FLe(sample.brake_pressure, Fl(100))

\* C19: every sample of every timeline has 0 <= speed_kmh <= 140,
\* 800 <= rpm <= 6500, 0 <= throttle_pct <= 100, 0 <= brake_pressure <= 100.
\* A sample is examined in the state that follows the tick that made it
\* (samples are only ever appended), and the whole timeline at its return.
C19_SampleRanges ==
  /\ (pc = "timeline" /\ timeline # <<>>) =>
        SampleInRange(timeline[Len(timeline)])
  /\ (pc = "frames" /\ idx = 1) =>
        \A i \in 1..Len(timeline) : SampleInRange(timeline[i])

\* the newest sample has the speed held at its upper limit of 140 km/h
SpeedLimited ==
  /\ pc = "timeline" /\ timeline # <<>>
  /\ timeline[Len(timeline)].speed_kmh = Fl(140)

\* the newest sample was taken with the vehicle stopped under an event's
\* brake: speed 0, engine speed at its lower limit of 800, throttle 0
StoppedByBrake ==
  /\ pc = "timeline" /\ timeline # <<>>
  /\ timeline[Len(timeline)].rpm = Fl(800)
  /\ timeline[Len(timeline)].throttle_pct = Fl(0)
  /\ FGe(timeline[Len(timeline)].brake_pressure, Fl(50))
  /\ timeline[Len(timeline)].speed_kmh = Fl(0)

\* the newest sample carries the largest throttle or the largest brake
\* pressure an event sets: 95 % and 100 %
EventExtreme ==
  /\ pc = "timeline" /\ timeline # <<>>
  /\ \/ timeline[Len(timeline)].throttle_pct = Fl(95)
     \/ timeline[Len(timeline)].brake_pressure = Fl(100)

\* a timeline has been returned in which the speed was held at 140 km/h
\* with the throttle at 50 % or above, where the controller does not act
C19_Witness ==
  /\ pc = "frames" /\ idx = 1
  /\ \E i \in 2..Len(timeline) :
        /\ timeline[i].speed_kmh = Fl(140)
        /\ timeline[i - 1].speed_kmh = Fl(140)
        /\ FGe(timeline[i].throttle_pct, Fl(50))

\* the phases whose window contains the tick at ms
PhasesAt(time_sec) == {i \in 1..Len(phases) : InPhase(phases[i], time_sec)}

\* C20: at every tick of a run (0 <= t < D) exactly one of the nine phase
\* windows contains the tick, and _get_current_phase returns that phase,
\* not the fallback.
C20_OnePhasePerTick ==
  (pc = "timeline" /\ duration >= 1 /\ InRange(duration, ms)) =>
     /\ Cardinality(PhasesAt(Seconds(ms))) = 1
     /\ get_current_phase(phases, Seconds(ms)) \in PhasesAt(Seconds(ms))

\* the loop is at a tick that lies exactly on the boundary between two
\* phases, and the phase that starts there is the one returned
C20_Witness ==
  /\ pc = "timeline" /\ InRange(duration, ms)
  /\ \E i \in 2..Len(phases) :
        /\ phases[i].start_sec = Seconds(ms)
        /\ get_current_phase(phases, Seconds(ms)) = i
        /\ PhasesAt(Seconds(ms)) = {i}

\* raw values of a payload as the dictionary lays them out: 16-bit values in
\* bytes 0-1 low byte first, 8-bit values in one byte, the flag in bit 0
Raw16(bytes) == bytes[1] + 256 * bytes[2]

ScaleOffset(id, name, raw) == raw * Dbc(id, name).scale + Dbc(id, name).offset

FullFrameDecoded ==
  /\ Decoded /\ dec_in.dbc_readable /\ KnownId(dec_in.arb_id)
  /\ ~dec_in.data.none /\ Len(dec_in.data.bytes) = 8

\* C21: for a known identifier and a full 8-byte payload the result has the
\* message's name, exactly the fields of that message set, each to
\* raw * scale + offset, and every other signal field unset.
C21_DecodeHit ==
  FullFrameDecoded =>
    LET b == dec_in.data.bytes
        named == [EmptyResult EXCEPT
                    !.message_name = Some(DBC_CONTENT[dec_in.arb_id].name)]
    IN  CASE dec_in.arb_id = 256 ->
               /\ named.message_name.v = "VehicleSpeed"
               /\ dec_out = [named EXCEPT !.speed_kmh =
                               Some(ScaleOffset(256, "speed_kmh", Raw16(b)))]
          [] dec_in.arb_id = 257 ->
               /\ named.message_name.v = "EngineData"
               /\ dec_out = [named EXCEPT
                               !.rpm = Some(ScaleOffset(257, "rpm", Raw16(b))),
                               !.throttle_pct =
                                  Some(ScaleOffset(257, "throttle", b[3]))]
          [] dec_in.arb_id = 258 ->
               /\ named.message_name.v = "BrakeData"
               /\ dec_out = [named EXCEPT
                               !.brake_pressure =
                                  Some(ScaleOffset(258, "pressure", b[1])),
                               !.brake_active =
                                  Some(ScaleOffset(258, "active", b[2] % 2) # 0)]
          [] dec_in.arb_id = 259 ->
               /\ named.message_name.v = "SteeringData"
               /\ dec_out = [named EXCEPT !.steering_angle =
                               Some(ScaleOffset(259, "angle", Raw16(b)))]

\* a full SteeringData frame has been decoded to an angle that shows both
\* the scale and the offset
C21_Witness ==
  /\ FullFrameDecoded /\ dec_in.arb_id = 259
  /\ dec_out.steering_angle.set
  /\ dec_out.steering_angle.v = Raw16(dec_in.data.bytes) * 1280 - 1080 * Unit
  /\ ~dec_out.speed_kmh.set /\ ~dec_out.rpm.set

\* ms since the last applied event, at the tick about to be processed
SinceLastEvent == (start_time + ms) - events[Len(events)].timestamp

\* C22: a recovery lasts between 2000 and 4000 ms.  An event scheduled less
\* than 2000 ms after the last applied event is dropped for every recovery
\* length; one scheduled 4000 ms or more after it is applied, the last
\* applied event being the only one whose recovery could still run.
C22_RecoveryWindow ==
  [][ (pc = "timeline" /\ InRange(duration, ms) /\ ms \in DOMAIN event_schedule
         /\ events # <<>>) =>
        /\ (0 < SinceLastEvent /\ SinceLastEvent < 2000) => events' = events
        /\ SinceLastEvent >= 4000 => events' # events
    ]_vars

\* both cases have happened in one run: an event applied 4000 ms or more
\* after its predecessor, and a scheduled event less than 2000 ms after an
\* applied one whose tick has passed without a record
C22_Witness ==
  /\ pc = "timeline"
  /\ \E i \in 1..(Len(events) - 1) :
        events[i + 1].timestamp - events[i].timestamp >= 4000
  /\ \E t \in DOMAIN event_schedule : Dropped(t)

\* the records of the log that belong to the event scheduled at tick t
RecordsOf(t) ==
  {i \in 1..Len(events) :
     /\ events[i].timestamp = start_time + t
     /\ events[i].type = event_schedule[t].type}

\* C23: the event log is strictly increasing in timestamp, every record is
\* stamped start_time + the scheduled tick of a scheduled event of its
\* type, and no scheduled event has more than one record.
C23_EventLogOrdered ==
  /\ \A i, j \in 1..Len(events) :
        i < j => events[i].timestamp < events[j].timestamp
  /\ \A i \in 1..Len(events) :
        \E t \in DOMAIN event_schedule : i \in RecordsOf(t)
  /\ \A t \in DOMAIN event_schedule : Cardinality(RecordsOf(t)) <= 1

\* a run has ended with several events in its log, a scheduled event
\* between two of them having no record
C23_Witness ==
  /\ pc = "frames" /\ Len(events) >= 3
  /\ \E t \in DOMAIN event_schedule :
        /\ RecordsOf(t) = {}
        /\ events[1].timestamp < start_time + t
        /\ start_time + t < events[Len(events)].timestamp

\* the log has a record less than 4000 ms before time t: a recovery may
\* have been running at t
MaybeInRecovery(t) ==
  \E i \in 1..Len(events) :
     events[i].timestamp < t /\ t - events[i].timestamp < 4000

\* C24: once the timeline is complete, every scheduled event has its record
\* in the log or falls within the recovery of an applied event; none is
\* lost otherwise.
C24_NoEventLost ==
  pc = "frames" =>
    \A t \in DOMAIN event_schedule :
       \/ RecordsOf(t) # {}
       \/ MaybeInRecovery(start_time + t)

BrakingEvents ==
  {"emergency_brake", "pedestrian_stop", "traffic_stop", "deceleration",
   "full_stop"}

\* the brake pressure a braking event sets
EventBrake(event) ==
  CASE event.type \in {"emergency_brake", "pedestrian_stop"} ->
         EventGet(event, "brake", Fl(100))
    [] event.type = "traffic_stop" -> Fl(50)
    [] event.type = "deceleration" -> Fl(20)
    [] event.type = "full_stop" -> Fl(30)

\* the recovery of a braking event is running and does not end at this tick
BrakingRecovery ==
  /\ events # <<>>
  /\ events[Len(events)].type \in BrakingEvents
  /\ active_event_duration > 0
  /\ ~RecoveryExpires(active_event_duration)

\* C25: from the tick a braking event is applied to the tick before its
\* recovery expires, every sample has brake_active true and the brake
\* pressure the event set, and the speed does not increase.
C25_BrakingHolds ==
  [][ (pc = "timeline" /\ InRange(duration, ms)) =>
        /\ (/\ EventDue(event_schedule, ms, active_event_duration)
            /\ event_schedule[ms].type \in BrakingEvents) =>
              /\ state'.brake_active
              /\ state'.brake_pressure = EventBrake(event_schedule[ms])
              /\ FLe(state'.speed_kmh, state.speed_kmh)
        /\ BrakingRecovery =>
              /\ state'.brake_active
              /\ state'.brake_pressure = state.brake_pressure
              /\ FLe(state'.speed_kmh, state.speed_kmh)
    ]_vars

\* the recovery of a braking event of this type is running, the brake
\* holds the pressure the event set and the vehicle has slowed down since
\* the event
BrakeHeldAfter(type, pressure) ==
  /\ pc = "timeline" /\ BrakingRecovery
  /\ events[Len(events)].type = type
  /\ state.brake_active /\ state.brake_pressure = Fl(pressure)
  /\ timeline[Len(timeline)].brake_pressure = Fl(pressure)
  /\ FLt(state.speed_kmh, events[Len(events)].speed_kmh)

\* each of the other four braking events holds its brake
PedestrianStopHeld == BrakeHeldAfter("pedestrian_stop", 70)
FullStopHeld == BrakeHeldAfter("full_stop", 30)
\* ... up to the tick before its recovery expires
TrafficStopHeld ==
  /\ BrakeHeldAfter("traffic_stop", 50)
  /\ RecoveryExpires(Countdown(active_event_duration))
DecelerationHeld ==
  /\ BrakeHeldAfter("deceleration", 20)
  /\ RecoveryExpires(Countdown(active_event_duration))

\* the emergency brake has held its pressure of 100 up to the last tick
\* before its recovery expires, the vehicle having slowed down
C25_Witness ==
  /\ BrakeHeldAfter("emergency_brake", 100)
  /\ RecoveryExpires(Countdown(active_event_duration))

\* target speed of the phase at the tick about to be processed
TargetSpeed ==
  phases[get_current_phase(phases, Seconds(ms))].target_speed

\* the cruise controller acts at this tick (no event is applied first) and
\* the speed is more than 5 km/h above the phase target
CruiseAboveTarget ==
  /\ pc = "timeline" /\ InRange(duration, ms)
  /\ ~EventDue(event_schedule, ms, active_event_duration)
  /\ ~state.brake_active /\ FLt(state.throttle_pct, Fl(50))
  /\ FLt(FSub(Fl(TargetSpeed), state.speed_kmh), Fl(-5))

\* C26: on a tick where the cruise controller acts with the speed more
\* than 5 km/h above the target, the speed at the end of the tick is not
\* higher than at its start.
C26_CruiseTowardsTarget ==
  [][ CruiseAboveTarget => FLe(state'.speed_kmh, state.speed_kmh) ]_vars

\* the tick about to be processed ends a recovery: no event is applied at
\* it and the countdown reaches zero or below
RecoveryEndsNow ==
  /\ ~EventDue(event_schedule, ms, active_event_duration)
  /\ active_event_duration > 0
  /\ active_event_duration - dt_ms <= 0

HardAccelerationNow ==
  /\ EventDue(event_schedule, ms, active_event_duration)
  /\ event_schedule[ms].type = "hard_acceleration"

BrakingEventNow ==
  /\ EventDue(event_schedule, ms, active_event_duration)
  /\ event_schedule[ms].type \in BrakingEvents

\* C27: once brake_active is true it stays true at every tick at which no
\* recovery expires and no hard_acceleration event is applied; the cruise
\* controller never clears it, neither in the tick in which a braking event
\* sets it nor in a later one.
C27_BrakeSticky ==
  [][ (pc = "timeline" /\ InRange(duration, ms)) =>
        /\ (state.brake_active /\ ~RecoveryEndsNow /\ ~HardAccelerationNow)
              => state'.brake_active
        /\ BrakingEventNow => state'.brake_active
    ]_vars

\* the brake flag is on although the last event applied was not a braking
\* event, so the cruise controller set it; the speed has since dropped
\* below the target of the phase and the flag has stayed on over the last
\* two samples, with the vehicle still slowing down
C27_Witness ==
  /\ pc = "timeline" /\ InRange(duration, ms) /\ Len(timeline) >= 2
  /\ state.brake_active
  /\ events # <<>> /\ events[Len(events)].type \notin BrakingEvents
  /\ timeline[Len(timeline)].brake_active
  /\ timeline[Len(timeline) - 1].brake_active
  /\ TargetSpeed > 0
  /\ FLt(timeline[Len(timeline) - 1].speed_kmh, Fl(TargetSpeed))
  /\ FLt(state.speed_kmh, timeline[Len(timeline) - 1].speed_kmh)

\* every raw value of a sample fits the field the encoder packs it into
RawsFit(sample) ==
  /\ FitsH(speed_raw_of(sample.speed_kmh))
  /\ FitsH(rpm_raw_of(sample.rpm))
  /\ FitsB(throttle_raw_of(sample.throttle_pct))
  /\ FitsB(pressure_raw_of(sample.brake_pressure))
  /\ FitsH(angle_raw_of(sample.steering_angle))

\* C28: in every sample the steering angle is within [-1080, 1080] degrees
\* and every raw value fits its field, and the encoding of the samples
\* never raises.
\* A sample is examined in the state that follows the tick that made it,
\* and the whole timeline at its return.
SampleEncodable(sample) ==
  /\ FLe(Fl(-1080), sample.steering_angle)
  /\ FLe(sample.steering_angle, Fl(1080))
  /\ RawsFit(sample)

C28_EncodableSamples ==
  /\ (pc = "timeline" /\ timeline # <<>>) =>
        SampleEncodable(timeline[Len(timeline)])
  /\ (pc = "frames" /\ idx = 1) =>
        \A i \in 1..Len(timeline) : SampleEncodable(timeline[i])
  /\ pc # "raised"

\* a run has been encoded to its end after a right turn had set the wheel
\* to 450 degrees
RightTurnEncoded ==
  /\ pc = "done" /\ can_frames # <<>>
  /\ \E i \in 1..Len(timeline) : FGt(timeline[i].steering_angle, Fl(430))

\* a run has been encoded to its end, the parking maneuver having set the
\* wheel to -500 degrees in one sample and an earlier event having turned
\* it beyond 250 degrees to the other side
C28_Witness ==
  /\ pc = "done" /\ can_frames # <<>>
  /\ \E i \in 1..Len(timeline) :
        FLt(timeline[i].steering_angle, Fl(-450))
  /\ \E i \in 1..Len(timeline) :
        FGt(timeline[i].steering_angle, Fl(250))
  /\ \E k \in 1..Len(can_frames) : can_frames[k].arb_id = 259

\* C29: a returned frame stream holds, for each message, exactly the frames
\* of the positive multiples of its period: the k-th frame is stamped
\* start_time + k * period (none at tick 0) and there are
\* D * 1000 / period - 1 of them.
C29_FramesAtMultiples ==
  pc = "done" =>
    \A id \in DOMAIN CAN_MESSAGES :
       LET fs == FramesOf(id)
           period_ms == CAN_MESSAGES[id].period_ms
       IN  /\ Len(fs) = (duration * 1000) \div period_ms - 1
           /\ \A k \in 1..Len(fs) : fs[k].ts = start_time + k * period_ms

\* frames of message id stamped inside the k-th 60-second window
FramesInWindow(id, k) ==
  {i \in 1..Len(can_frames) :
     /\ can_frames[i].arb_id = id
     /\ (can_frames[i].ts - start_time) \div WindowMs = k}

\* C30: in a returned frame stream every 60-second window of the run, the
\* first included, holds for each message exactly floor(60000 / period_ms)
\* frames, the count the evaluator expects.
C30_WindowCounts ==
  pc = "done" =>
    \A id \in DOMAIN CAN_PERIODS :
       \A k \in 0..((duration * 1000) \div WindowMs - 1) :
          Cardinality(FramesInWindow(id, k)) = expected_count_of(CAN_PERIODS[id])
====
